---- MODULE Spec2Model ----
(***************************************************************************)
(* Model of the mesh pipeline of buildhuman (src/app/src-tauri/src):       *)
(*   - the pipeline coordinator (mesh_generation.rs): MESH_STATE behind    *)
(*     one mutex, update_skeleton, update_moulds, generate_mesh;           *)
(*   - the mould set (mesh/mould.rs), skeleton (mesh/skeleton.rs),         *)
(*     brick map (mesh/brick_map.rs);                                      *)
(*   - the dual-contouring extractor (mesh/dual_contouring.rs).            *)
(*                                                                         *)
(* Conventions.                                                            *)
(*   Option<T>: None is << >>, Some(v) is <<v>>.                           *)
(*   The pipeline part models space along one axis (x): the code treats    *)
(*   the three axes alike in mould_world_bounds, union_bounds and the      *)
(*   brick grid.  Lengths are integers, 192 to the world unit, so that the *)
(*   voxel size of every resolution used is an integer; f32 products that  *)
(*   do not land on that lattice are compared in thousandths.  Joint       *)
(*   rotations are the identity.                                           *)
(*   A panic while the mutex guard is alive poisons the mutex; every entry *)
(*   point does MESH_STATE.lock().unwrap(), which panics on a poisoned     *)
(*   mutex and blocks forever on one that is never released.               *)
(***************************************************************************)
EXTENDS Integers, Sequences, FiniteSets, TLC

(***************************************************************************)
(* Bounds of the model.                                                    *)
(***************************************************************************)
\* Number of host calls explored in one behaviour of the pipeline.
MaxCalls == 5

(***************************************************************************)
(* Program constants.                                                      *)
(***************************************************************************)
BRICK_SIZE == 8
BRICK_MAP_THRESHOLD == 96
\* Extraction bounds along x: (-1.0, 1.0), in model units.
BoundsMin == -192
BoundsMax == 192
\* The bounds' upper corner along y, 1.5: the largest extent is along y.
BoundsMaxY == 288
WorldUnit == BoundsMax
\* surface_thickness = 0.2, in thousandths of a model unit.
surface_thickness == 200 * WorldUnit
\* f32::INFINITY
INFINITY == 1000000

None == << >>
Some(v) == <<v>>
IsSome(o) == Len(o) = 1
IsNone(o) == Len(o) = 0
Unwrap(o) == o[1]

Abs(a) == IF a < 0 THEN -a ELSE a
Min2(a, b) == IF a < b THEN a ELSE b
Max2(a, b) == IF a > b THEN a ELSE b

(***************************************************************************)
(* Inputs the host sends.                                                  *)
(***************************************************************************)
JointData(id, off, parent) == [id |-> id, local_offset |-> off, parent_id |-> parent]

MouldData(id, shape, center, endp, radius, blend, parent) ==
    [id |-> id, shape |-> shape, center |-> center, end_point |-> endp,
     radius |-> radius, blend_radius |-> blend, parent_joint_id |-> parent,
     radial_profiles |-> None, use_splines |-> TRUE]

\* update_skeleton payloads: no joint, joint j1 at rest, joint j1 moved by +1/3.
JointLists ==
    { << >>,
      << JointData("j1", 0, None) >>,
      << JointData("j1", 64, None) >> }

\* update_skeleton payloads with a hierarchy: root j1, its child j2, and j2
\* alone (its parent is then not a joint of the skeleton).
JointTrees ==
    { << >> } \cup { << JointData("j1", o1, None) >> : o1 \in {0, 64} }
        \cup { << JointData("j1", o1, None), JointData("j2", o2, Some("j1")) >> :
                  o1 \in {0, 64}, o2 \in {-64, 0, 64} }
        \cup { << JointData("j2", 0, Some("j1")) >> }

\* Variants of mould m1 (a sphere, radius 0.25, blend 1/12).
M1Variants ==
    { MouldData("m1", "Sphere", c, None, 48, 16, p) :
        c \in {-64, 0}, p \in {None, Some("j1")} }

\* Mould m2: a capsule fixed in world space, with a smaller blend radius; its
\* surface starts 6 units from the surface of m1 centred at 0.
M2 == MouldData("m2", "Capsule", 86, Some(112), 32, 8, None)

\* update_moulds payloads.
MouldLists ==
    { << >> } \cup { << m >> : m \in M1Variants } \cup { << m, M2 >> : m \in M1Variants }

\* Variants of mould p1: a profiled capsule of two ring segments, the first
\* ring with four control points, the second with three, in a thick and a
\* thin version.
P1Variants ==
    { [MouldData("p1", "ProfiledCapsule", -64, Some(64), 40, 8, p) EXCEPT
          !.radial_profiles = Some(<< << first, 24, 32, 24 >>, << 24, 16, 24 >> >>),
          !.use_splines = u] :
        p \in {None, Some("j1")}, u \in BOOLEAN, first \in {40, 8} }

\* update_moulds payloads with a profiled capsule.
ProfiledMouldLists == { << m >> : m \in P1Variants }

\* Mould m3: a sphere of radius 0.75 around the origin, larger than the
\* allocation band of the brick map.
M3 == MouldData("m3", "Sphere", 0, None, 144, 16, None)

\* update_moulds payloads with the large sphere.
LargeMouldLists == { << >>, << M3 >>, << M2, M3 >> }

\* generate_mesh resolutions: one dense, two brick resolutions, and one brick
\* resolution that is not a multiple of BRICK_SIZE.
DenseResolutions == {33}
BrickResolutions == {96, 192}
BadResolutions == {100}
Resolutions == DenseResolutions \cup BrickResolutions \cup BadResolutions

(***************************************************************************)
(* State.                                                                  *)
(***************************************************************************)
VARIABLES
    skeleton,              \* MeshGeneratorState.skeleton: Option<Skeleton>
    mould_manager,         \* Option<MouldManager>
    last_skeleton,         \* Option<Skeleton>
    prev_skeleton,         \* Option<Skeleton>
    last_moulds,           \* Vec<MouldData>
    moved_joint_ids,       \* Vec<String>, as a set
    dirty_bounds,          \* Option<AABB>
    brick_map,             \* Option<BrickMap>
    brick_map_resolution,  \* Option<u32>
    last_mesh,             \* Option<MeshData>
    mutex,                 \* MESH_STATE's mutex: "free", "held" or "poisoned"
    ret,                   \* what the last host call returned
    calls,                 \* number of host calls made
    dc_grid,               \* the grid handed to the extractor
    dc_mesh,               \* Option: the extractor's output for dc_grid
    ser_mesh,              \* the MeshData handed to serialize_mesh_to_bytes
    ser_bytes,             \* Option: the byte buffer it returned
    target_endian,         \* byte order of the build target: "little" or "big"
    control_points,        \* what the last get_profile_control_points returned
    sk,                    \* a Skeleton used directly: joints, cache, cache_valid
    sk_ret,                \* what the last call on sk returned
    spl_values,            \* control values handed to the spline samplers
    spl_ret,               \* Option: the last sampler call and what it returned
    snap,                  \* one request_snapshot call and the events around it
    gen                    \* Option: locals of the brick-path generate_mesh in flight

vars == << skeleton, mould_manager, last_skeleton, prev_skeleton, last_moulds,
           moved_joint_ids, dirty_bounds, brick_map, brick_map_resolution,
           last_mesh, mutex, ret, calls, dc_grid, dc_mesh, ser_mesh, ser_bytes,
           target_endian, control_points, sk, sk_ret, spl_values, spl_ret, snap,
           gen >>

pipeline == << skeleton, mould_manager, last_skeleton, prev_skeleton, last_moulds,
               moved_joint_ids, dirty_bounds, brick_map, brick_map_resolution,
               last_mesh >>

dc_vars == << dc_grid, dc_mesh >>

ser_vars == << ser_mesh, ser_bytes, target_endian >>

sk_vars == << sk, sk_ret >>

spl_vars == << spl_values, spl_ret >>

\* What only the component specifications touch.
components == << sk_vars, spl_vars, snap, gen >>

\* What update_skeleton, update_moulds and generate_mesh have no access to.
outside == << dc_vars, ser_vars, control_points, components >>

(***************************************************************************)
(* Skeleton (mesh/skeleton.rs).                                            *)
(***************************************************************************)
\* Skeleton::new followed by add_joint for every joint of the payload.
RECURSIVE add_joints(_, _)
add_joints(joints, list) ==
    IF list = << >> THEN joints
    ELSE add_joints((Head(list).id :> Head(list)) @@ joints, Tail(list))

SkeletonOf(list) == [joints |-> add_joints(<< >>, list)]

get_joints(skel) == DOMAIN skel.joints

\* compute_world_transform finds the joint and every ancestor (else it panics
\* with "Joint not found in skeleton").
RECURSIVE JointFound(_, _)
JointFound(skel, joint_id) ==
    /\ joint_id \in DOMAIN skel.joints
    /\ LET joint == skel.joints[joint_id]
       IN IsSome(joint.parent_id) => JointFound(skel, Unwrap(joint.parent_id))

\* World translation of a joint: parent world composed with local.
RECURSIVE compute_world_transform(_, _)
compute_world_transform(skel, joint_id) ==
    LET joint == skel.joints[joint_id]
    IN IF IsSome(joint.parent_id)
       THEN compute_world_transform(skel, Unwrap(joint.parent_id)) + joint.local_offset
       ELSE joint.local_offset

transform_point_to_world(skel, joint_id, local_point) ==
    compute_world_transform(skel, joint_id) + local_point

\* Skeleton::new
Skeleton_new == [joints |-> << >>, world_transform_cache |-> << >>, cache_valid |-> FALSE]

invalidate_cache(skel) ==
    [skel EXCEPT !.cache_valid = FALSE, !.world_transform_cache = << >>]

\* What get_world_transform returns: the cached transform when the cache is
\* valid and holds the joint, else the computed one.
get_world_transform(skel, joint_id) ==
    IF skel.cache_valid /\ joint_id \in DOMAIN skel.world_transform_cache
    THEN skel.world_transform_cache[joint_id]
    ELSE compute_world_transform(skel, joint_id)

get_world_transform_immutable(skel, joint_id) == compute_world_transform(skel, joint_id)

(***************************************************************************)
(* SDF primitives (mesh/sdf.rs), along one axis.                           *)
(***************************************************************************)
sphere_sdf(point, center, radius) == Abs(point - center) - radius

capsule_sdf(point, a, b, radius) ==
    LET ba == b - a
        pa == point - a
        ba_dot == ba * ba
        pa_dot == pa * ba
        \* a + ba * clamp(pa_dot / ba_dot, 0, 1)
        closest == IF pa_dot <= 0 THEN a
                   ELSE IF pa_dot >= ba_dot THEN b
                   ELSE point
    IN IF ba_dot = 0 THEN Abs(point - a) - radius
       ELSE Abs(point - closest) - radius

\* a.min(b) - h * h * 0.25 / k, rounded down to the lattice: the sign test
\* "< 0" of the extractor is then exact on the blend of two values.
smooth_min_poly(a, b, k) ==
    LET h == Max2(k - Abs(a - b), 0)
    IN Min2(a, b) - ((h * h + 4 * k - 1) \div (4 * k))

(***************************************************************************)
(* Radial profiles (mesh/spline.rs, mesh/sdf.rs).  A parameter t or a      *)
(* fraction of the full turn is the rational num / den.                    *)
(***************************************************************************)
\* The default radius 0.1.
default_radius == WorldUnit \div 10

RECURSIVE ring_sum(_)
ring_sum(ring) == IF ring = << >> THEN 0 ELSE Head(ring) + ring_sum(Tail(ring))

\* ring.iter().sum() / ring.len()
ring_average(ring) == ring_sum(ring) \div Len(ring)

\* catmull_rom(p0, p1, p2, p3, t) at t = num / den
catmull_rom(p0, p1, p2, p3, num, den) ==
    LET a == -p0 + 3 * p1 - 3 * p2 + p3
        b == 2 * p0 - 5 * p1 + 4 * p2 - p3
        c == -p0 + p2
        d == 2 * p1
    IN (a * num * num * num + b * num * num * den + c * num * den * den
            + d * den * den * den) \div (2 * den * den * den)

\* catmull_rom_array(values, t) at t = num / den in [0, 1]
catmull_rom_array(values, num, den) ==
    IF values = << >> THEN 0
    ELSE IF Len(values) = 1 THEN values[1]
    ELSE IF Len(values) = 2
    THEN (values[1] * (den - num) + values[2] * num) \div den
    ELSE LET num_segments == Len(values) - 1
             segment_idx == Min2((num * num_segments) \div den, num_segments - 1)
             local == num * num_segments - segment_idx * den
             p0 == IF segment_idx = 0 THEN values[1] ELSE values[segment_idx]
             p1 == values[segment_idx + 1]
             p2 == values[segment_idx + 2]
             p3 == IF segment_idx + 2 >= Len(values) THEN values[Len(values)]
                   ELSE values[segment_idx + 3]
         IN catmull_rom(p0, p1, p2, p3, local, den)

\* catmull_rom_closed(values, angle) at angle = num / den of the full turn,
\* num >= 0
catmull_rom_closed(values, num, den) ==
    IF values = << >> THEN 0
    ELSE IF Len(values) = 1 THEN values[1]
    ELSE LET n == Len(values)
             normalized == ((num % den) + den) % den
             segment_idx == ((normalized * n) \div den) % n
             local == normalized * n - segment_idx * den
         IN catmull_rom(values[((segment_idx + n - 1) % n) + 1], values[segment_idx + 1],
                        values[((segment_idx + 1) % n) + 1],
                        values[((segment_idx + 2) % n) + 1], local, den)

\* sample_ring_at_angle(ring, angle, use_splines) at angle = num / den of the
\* full turn
sample_ring_at_angle(ring, num, den, use_splines) ==
    IF ring = << >> THEN default_radius
    ELSE IF Len(ring) = 1 THEN ring[1]
    ELSE IF use_splines THEN catmull_rom_closed(ring, num, den)
    ELSE LET num_points == Len(ring)
             index0 == ((num * num_points) \div den) % num_points
             index1 == (index0 + 1) % num_points
             frac == (num * num_points) % den
         IN (ring[index0 + 1] * (den - frac) + ring[index1 + 1] * frac) \div den

\* sample_radial_profile(profiles, t, angle, use_splines) at t = num / den and
\* angle 0, the angle of a point on the bone axis.
sample_radial_profile(profiles, num, den, use_splines) ==
    IF profiles = << >> THEN default_radius
    ELSE IF use_splines
    THEN catmull_rom_array([i \in DOMAIN profiles |->
                               sample_ring_at_angle(profiles[i], 0, 1, TRUE)], num, den)
    ELSE LET max_segment_index == Len(profiles) - 1
             segment0 == (num * max_segment_index) \div den
             segment1 == Min2(segment0 + 1, Len(profiles) - 1)
             t_frac == num * max_segment_index - segment0 * den
             radius0 == sample_ring_at_angle(profiles[segment0 + 1], 0, 1, FALSE)
             radius1 == sample_ring_at_angle(profiles[segment1 + 1], 0, 1, FALSE)
         IN (radius0 * (den - t_frac) + radius1 * t_frac) \div den

\* profiled_capsule_sdf at a point of the bone's line: beyond the ends the
\* spherical caps, between them the radial distance 0 minus the profile radius.
profiled_capsule_sdf(point, a, b, radial_profiles, use_splines) ==
    LET ba == b - a
        pa == point - a
        first_radius == IF radial_profiles = << >> THEN default_radius
                        ELSE ring_average(radial_profiles[1])
        last_radius == IF radial_profiles = << >> THEN default_radius
                       ELSE ring_average(radial_profiles[Len(radial_profiles)])
    IN IF ba = 0 THEN Abs(pa) - first_radius
       ELSE IF pa * ba < 0 THEN Abs(pa) - first_radius
       ELSE IF pa * ba > ba * ba THEN Abs(point - b) - last_radius
       ELSE 0 - sample_radial_profile(radial_profiles, Abs(pa), Abs(ba), use_splines)

(***************************************************************************)
(* Mould set (mesh/mould.rs).                                              *)
(***************************************************************************)
\* MouldManager::new followed by add_mould for every mould of the payload.
RECURSIVE add_moulds(_, _)
add_moulds(moulds, list) ==
    IF list = << >> THEN moulds
    ELSE add_moulds((Head(list).id :> Head(list)) @@ moulds, Tail(list))

\* The orders in which a HashMap over these keys may be iterated.
IterOrders(ids) ==
    { o \in [1..Cardinality(ids) -> ids] : \A i \in ids : \E k \in DOMAIN o : o[k] = i }

set_skeleton(mm, skel) ==
    [mm EXCEPT !.skeleton = Some(skel), !.cache_valid = FALSE]

\* rebuild_cache panics when a mould's parent joint is not in the skeleton.
rebuild_cache_panics(mm) ==
    /\ ~mm.cache_valid
    /\ IsSome(mm.skeleton)
    /\ \E id \in DOMAIN mm.moulds :
          /\ IsSome(mm.moulds[id].parent_joint_id)
          /\ ~JointFound(Unwrap(mm.skeleton), Unwrap(mm.moulds[id].parent_joint_id))

CachedMouldTransform(mould, skel) ==
    IF IsSome(mould.parent_joint_id)
    THEN [world_center |->
              transform_point_to_world(skel, Unwrap(mould.parent_joint_id), mould.center),
          world_end |->
              IF IsSome(mould.end_point)
              THEN Some(transform_point_to_world(skel, Unwrap(mould.parent_joint_id),
                                                 Unwrap(mould.end_point)))
              ELSE None]
    ELSE [world_center |-> mould.center, world_end |-> mould.end_point]

rebuild_cache(mm) ==
    IF mm.cache_valid THEN mm
    ELSE IF IsNone(mm.skeleton) THEN [mm EXCEPT !.mould_cache = << >>]
    ELSE [mm EXCEPT
            !.mould_cache = [id \in DOMAIN mm.moulds |->
                                CachedMouldTransform(mm.moulds[id], Unwrap(mm.skeleton))],
            !.cache_valid = TRUE]

\* evaluate_sdf panics ("Cache not built") on a mould without a cache entry.
evaluate_sdf_panics(mm) ==
    \E id \in DOMAIN mm.moulds : id \notin DOMAIN mm.mould_cache

mould_sdf(mould, cached, point) ==
    IF mould.shape = "Capsule" /\ IsSome(cached.world_end)
    THEN capsule_sdf(point, cached.world_center, Unwrap(cached.world_end), mould.radius)
    ELSE IF mould.shape = "ProfiledCapsule" /\ IsSome(cached.world_end)
    THEN profiled_capsule_sdf(point, cached.world_center, Unwrap(cached.world_end),
                              Unwrap(mould.radial_profiles), mould.use_splines)
    ELSE IF mould.shape = "ProfiledCapsule" /\ IsSome(mould.radial_profiles)
                /\ Unwrap(mould.radial_profiles) # << >>
    THEN sphere_sdf(point, cached.world_center,
                    ring_average(Unwrap(mould.radial_profiles)[1]))
    ELSE sphere_sdf(point, cached.world_center, mould.radius)

RECURSIVE fold_sdf(_, _, _, _)
fold_sdf(mm, order, point, result) ==
    IF order = << >> THEN result
    ELSE LET id == Head(order)
             mould == mm.moulds[id]
         IN fold_sdf(mm, Tail(order), point,
                     smooth_min_poly(result, mould_sdf(mould, mm.mould_cache[id], point),
                                     mould.blend_radius))

evaluate_sdf(mm, point) ==
    IF DOMAIN mm.moulds = {} THEN WorldUnit
    ELSE fold_sdf(mm, mm.iter_order, point, INFINITY)

\* Samples per ring of get_control_points_world when splines are enabled.
SplineSamples == 64

\* The moulds get_control_points_world does not skip.
control_point_moulds(mm) ==
    { id \in DOMAIN mm.moulds :
        /\ mm.moulds[id].shape = "ProfiledCapsule"
        /\ IsSome(mm.moulds[id].radial_profiles)
        /\ Unwrap(mm.moulds[id].radial_profiles) # << >>
        /\ id \in DOMAIN mm.mould_cache
        /\ IsSome(mm.mould_cache[id].world_end) }

\* Center of ring seg_idx on the bone from a to b: a + (b - a) * t.
ring_center(a, b, seg_idx, num_segments) ==
    IF num_segments = 1 THEN a + (b - a) \div 2
    ELSE a + ((b - a) * seg_idx) \div (num_segments - 1)

\* samples_per_ring
samples_per_ring(mould, ring_profile) ==
    IF mould.use_splines THEN SplineSamples ELSE Len(ring_profile)

\* MouldManager::get_control_points_world.  The returned Vec as the set of its
\* entries; a position is the ring's center on the bone and the radius at
\* which the sample lies in the ring's plane.
get_control_points_world(mm) ==
    UNION { UNION { { [mould_id |-> id, segment_index |-> seg - 1, point_index |-> sample_idx,
                       center |-> ring_center(mm.mould_cache[id].world_center,
                                              Unwrap(mm.mould_cache[id].world_end), seg - 1,
                                              Len(Unwrap(mm.moulds[id].radial_profiles))),
                       radius |-> sample_ring_at_angle(
                                      Unwrap(mm.moulds[id].radial_profiles)[seg], sample_idx,
                                      samples_per_ring(mm.moulds[id],
                                          Unwrap(mm.moulds[id].radial_profiles)[seg]),
                                      mm.moulds[id].use_splines)] :
                      sample_idx \in 0..(samples_per_ring(mm.moulds[id],
                                            Unwrap(mm.moulds[id].radial_profiles)[seg]) - 1) } :
                    seg \in DOMAIN Unwrap(mm.moulds[id].radial_profiles) } :
            id \in control_point_moulds(mm) }

(***************************************************************************)
(* Dense grid (mesh/voxel_grid.rs) and brick map (mesh/brick_map.rs).      *)
(***************************************************************************)
\* VoxelGrid::new and VoxelGrid::evaluate: one sample per integer grid point.
VoxelGrid(resolution, mm) ==
    LET cell_size == Max2(BoundsMax - BoundsMin, BoundsMaxY - BoundsMin) \div (resolution - 1)
    IN [resolution |-> resolution,
        cell_size |-> cell_size,
        data |-> [x \in 0..(resolution - 1) |-> evaluate_sdf(mm, BoundsMin + x * cell_size)]]

VoxelGrid_get(grid, x) == grid.data[x]

VoxelGrid_get_position(grid, x) == BoundsMin + x * grid.cell_size

\* BrickMap::new asserts resolution % BRICK_SIZE == 0.
BrickMap_new_panics(resolution) == resolution % BRICK_SIZE # 0

BrickMap_new(resolution) ==
    [resolution |-> resolution,
     bricks |-> << >>,
     brick_count |-> resolution \div BRICK_SIZE,
     voxel_size |-> (BoundsMax - BoundsMin) \div resolution]

\* The voxel sampled at its low corner instead of its centre.
voxel_corner(map, x) == BoundsMin + x * map.voxel_size

\* World position of the centre of voxel x: get_position(x + 0.5).
voxel_center(map, x) == BoundsMin + x * map.voxel_size + (map.voxel_size \div 2)

\* World position of a brick centre (pass 1 of allocate_surface_bricks).
brick_center(map, bx) == BoundsMin + (bx * BRICK_SIZE + (BRICK_SIZE \div 2)) * map.voxel_size

\* voxel_size * BRICK_SIZE * 0.866, in thousandths.
brick_diagonal(map) == map.voxel_size * BRICK_SIZE * 866

\* sdf.abs() < surface_thickness + brick_diagonal
surface_adjacent(map, mm, thickness, bx) ==
    Abs(evaluate_sdf(mm, brick_center(map, bx))) * 1000 < thickness + brick_diagonal(map)

\* One brick with every voxel evaluated at its centre.
evaluated_brick(map, mm, bx) ==
    [lx \in 0..(BRICK_SIZE - 1) |-> evaluate_sdf(mm, voxel_center(map, bx * BRICK_SIZE + lx))]

evaluate_allocated_bricks(map, mm) ==
    [map EXCEPT !.bricks = [bx \in DOMAIN map.bricks |-> evaluated_brick(map, mm, bx)]]

allocate_surface_bricks(map, mm, thickness) ==
    LET surface_bricks == { bx \in 0..(map.brick_count - 1) :
                              surface_adjacent(map, mm, thickness, bx) }
        allocated == [bx \in surface_bricks \cup DOMAIN map.bricks |->
                         [lx \in 0..(BRICK_SIZE - 1) |-> INFINITY]]
    IN evaluate_allocated_bricks([map EXCEPT !.bricks = allocated], mm)

BrickMap_get_position(map, x) == BoundsMin + x * map.voxel_size

BrickMap_get(map, x) ==
    LET brick_coord == x \div BRICK_SIZE
    IN IF brick_coord \in DOMAIN map.bricks
       THEN map.bricks[brick_coord][x % BRICK_SIZE]
       ELSE INFINITY

\* Incremental update of the bricks that overlap the dirty region (expanded by
\* the brick diagonal): a surface-adjacent brick is allocated and re-sampled, a
\* brick clearly outside is dropped.
update_surface_bricks_in_bounds(map, mm, dirty, thickness) ==
    LET brick_world == map.voxel_size * BRICK_SIZE
        overlaps(bx) ==
            /\ (BoundsMin + bx * brick_world) * 1000 <= dirty.max * 1000 + brick_diagonal(map)
            /\ (BoundsMin + (bx + 1) * brick_world) * 1000 >= dirty.min * 1000 - brick_diagonal(map)
        touched == { bx \in 0..(map.brick_count - 1) : overlaps(bx) }
        resampled == { bx \in touched : surface_adjacent(map, mm, thickness, bx) }
        dropped == { bx \in touched :
                       evaluate_sdf(mm, brick_center(map, bx)) * 1000
                           > thickness + brick_diagonal(map) }
        kept == (DOMAIN map.bricks \ dropped) \cup resampled
    IN [map EXCEPT !.bricks =
            [bx \in kept |-> IF bx \in resampled THEN evaluated_brick(map, mm, bx)
                             ELSE map.bricks[bx]]]

(***************************************************************************)
(* Extraction as the coordinator sees it: the cells that own a vertex      *)
(* (cell_intersects_surface along the axis) and the mode.                  *)
(***************************************************************************)
surface_cells_dense(grid) ==
    { x \in 0..(grid.resolution - 2) :
        (VoxelGrid_get(grid, x) < 0) # (VoxelGrid_get(grid, x + 1) < 0) }

surface_cells_brick(map) ==
    { x \in 0..(map.resolution - 2) :
        (BrickMap_get(map, x) < 0) # (BrickMap_get(map, x + 1) < 0) }

MeshData(cells, fast_mode) == [cells |-> cells, fast_mode |-> fast_mode]

\* joint_moved comparing the joints' local offsets instead of their world
\* transforms.
joint_moved_local(prev, next, id) ==
    Abs(next.joints[id].local_offset - prev.joints[id].local_offset) * 10000 > WorldUnit

(***************************************************************************)
(* Dirty tracking (mesh_generation.rs).                                    *)
(***************************************************************************)
\* delta.magnitude() > 1e-4 (rotations are the identity).
joint_moved(prev, next, id) ==
    Abs(compute_world_transform(next, id) - compute_world_transform(prev, id)) * 10000
        > WorldUnit

compute_moved_joints(prev, next) ==
    { id \in get_joints(next) :
        id \notin get_joints(prev) \/ joint_moved(prev, next, id) }

\* get_world_transform_immutable panics inside compute_moved_joints.
compute_moved_joints_panics(prev, next) ==
    \E id \in get_joints(next) \cap get_joints(prev) :
        ~JointFound(prev, id) \/ ~JointFound(next, id)

vec3_changed(a, b) == Abs(a - b) * 10000 > WorldUnit

mould_data_changed(old, new) ==
    IF old.shape # new.shape \/ old.parent_joint_id # new.parent_joint_id THEN TRUE
    ELSE LET radius_changed == Abs(old.radius - new.radius) * 10000 > WorldUnit
             blend_changed == Abs(old.blend_radius - new.blend_radius) * 10000 > WorldUnit
             center_changed == vec3_changed(old.center, new.center)
             end_changed ==
                 IF IsNone(old.end_point) /\ IsNone(new.end_point) THEN FALSE
                 ELSE IF IsSome(old.end_point) /\ IsSome(new.end_point)
                      THEN vec3_changed(Unwrap(old.end_point), Unwrap(new.end_point))
                      ELSE TRUE
         IN radius_changed \/ blend_changed \/ center_changed \/ end_changed

AABB(lo, hi) == [min |-> lo, max |-> hi]

\* transform_point_to_world panics inside mould_world_bounds.
mould_world_bounds_panics(mould, skel) ==
    IsSome(mould.parent_joint_id) /\ ~JointFound(skel, Unwrap(mould.parent_joint_id))

mould_world_bounds(mould, skel) ==
    LET radius == mould.radius + mould.blend_radius
        center == IF IsSome(mould.parent_joint_id)
                  THEN transform_point_to_world(skel, Unwrap(mould.parent_joint_id),
                                                mould.center)
                  ELSE mould.center
        end == IF IsNone(mould.end_point) THEN None
               ELSE IF IsSome(mould.parent_joint_id)
                    THEN Some(transform_point_to_world(skel, Unwrap(mould.parent_joint_id),
                                                       Unwrap(mould.end_point)))
                    ELSE mould.end_point
        min_base == IF IsSome(end) THEN Min2(center, Unwrap(end)) ELSE center
        max_base == IF IsSome(end) THEN Max2(center, Unwrap(end)) ELSE center
    IN AABB(min_base - radius, max_base + radius)

union_bounds(target, bounds) ==
    IF IsSome(target)
    THEN Some(AABB(Min2(Unwrap(target).min, bounds.min), Max2(Unwrap(target).max, bounds.max)))
    ELSE Some(bounds)

\* prev_mould_map: the previous mould of an id, if any.
prev_mould(prev_moulds, id) ==
    LET hits == { i \in DOMAIN prev_moulds : prev_moulds[i].id = id }
    IN IF hits = {} THEN None
       ELSE Some(prev_moulds[CHOOSE i \in hits : \A j \in hits : j <= i])

\* A mould of the new list is changed when its parent joint moved, when it is
\* new, or when mould_data_changed says so.
mould_changed(mould, prev_moulds, moved) ==
    LET parent_moved == IsSome(mould.parent_joint_id)
                        /\ Unwrap(mould.parent_joint_id) \in moved
        old == prev_mould(prev_moulds, mould.id)
    IN parent_moved \/ (IF IsSome(old) THEN mould_data_changed(Unwrap(old), mould) ELSE TRUE)

\* The (mould, skeleton) pairs whose bounds the first loop of update_moulds
\* unions into dirty_bounds, in the order of the calls.
RECURSIVE changed_pairs(_, _, _, _, _)
changed_pairs(moulds, prev_moulds, skel, prev_skel, moved) ==
    IF moulds = << >> THEN << >>
    ELSE LET mould == Head(moulds)
             old == prev_mould(prev_moulds, mould.id)
             new_pair == IF IsSome(skel)
                         THEN << [mould |-> mould, skel |-> Unwrap(skel)] >>
                         ELSE << >>
             old_pair == IF IsSome(old) /\ IsSome(prev_skel)
                         THEN << [mould |-> Unwrap(old), skel |-> Unwrap(prev_skel)] >>
                         ELSE << >>
             here == IF mould_changed(mould, prev_moulds, moved)
                     THEN new_pair \o old_pair
                     ELSE << >>
         IN here \o changed_pairs(Tail(moulds), prev_moulds, skel, prev_skel, moved)

\* The pairs the second loop unions: moulds of the previous list that are gone.
RECURSIVE deleted_pairs(_, _, _)
deleted_pairs(prev_moulds, new_ids, prev_skel) ==
    IF prev_moulds = << >> THEN << >>
    ELSE LET old == Head(prev_moulds)
             here == IF old.id \notin new_ids /\ IsSome(prev_skel)
                     THEN << [mould |-> old, skel |-> Unwrap(prev_skel)] >>
                     ELSE << >>
         IN here \o deleted_pairs(Tail(prev_moulds), new_ids, prev_skel)

RECURSIVE union_all(_, _)
union_all(target, pairs) ==
    IF pairs = << >> THEN target
    ELSE union_all(union_bounds(target, mould_world_bounds(Head(pairs).mould, Head(pairs).skel)),
                   Tail(pairs))

mould_ids(moulds) == { moulds[i].id : i \in DOMAIN moulds }

\* Every bounds computation update_moulds makes, in order.
dirty_pairs(moulds, prev_moulds, skel, prev_skel, moved) ==
    changed_pairs(moulds, prev_moulds, skel, prev_skel, moved)
        \o deleted_pairs(prev_moulds, mould_ids(moulds), prev_skel)

(***************************************************************************)
(* The pipeline coordinator (mesh_generation.rs).                          *)
(***************************************************************************)
Ret(op, outcome, branch, resolution, fast_mode) ==
    [op |-> op, outcome |-> outcome, branch |-> branch,
     resolution |-> resolution, fast_mode |-> fast_mode]

\* MeshGeneratorState::new, behind a fresh mutex.
PipelineInit ==
    /\ skeleton = None
    /\ mould_manager = None
    /\ last_skeleton = None
    /\ prev_skeleton = None
    /\ last_moulds = << >>
    /\ moved_joint_ids = {}
    /\ dirty_bounds = None
    /\ brick_map = None
    /\ brick_map_resolution = None
    /\ last_mesh = None
    /\ mutex = "free"
    /\ ret = Ret("init", "Ok", "none", 0, FALSE)
    /\ control_points = {}
    /\ calls = 0

\* update_skeleton(joints)
UpdateSkeleton(joints) ==
    /\ calls < MaxCalls
    /\ mutex = "free"
    /\ calls' = calls + 1
    /\ LET prev == last_skeleton
           skel == SkeletonOf(joints)
       IN IF IsSome(prev) /\ compute_moved_joints_panics(Unwrap(prev), skel)
          THEN /\ mutex' = "poisoned"
               /\ ret' = Ret("update_skeleton", "panic", "none", 0, FALSE)
               /\ UNCHANGED pipeline
          ELSE /\ moved_joint_ids' = IF IsSome(prev)
                                     THEN compute_moved_joints(Unwrap(prev), skel)
                                     ELSE get_joints(skel)
               /\ skeleton' = Some(skel)
               /\ prev_skeleton' = prev
               /\ last_skeleton' = Some(skel)
               /\ mould_manager' = IF IsSome(mould_manager)
                                   THEN Some(set_skeleton(Unwrap(mould_manager), skel))
                                   ELSE None
               /\ ret' = Ret("update_skeleton", "Ok", "none", 0, FALSE)
               /\ UNCHANGED << mutex, last_moulds, dirty_bounds, brick_map,
                               brick_map_resolution, last_mesh >>

\* The mould manager update_moulds builds: MouldManager::new, add_mould for
\* each mould, set_skeleton when the state holds a skeleton.
new_mould_manager(moulds, skel, order) ==
    [moulds |-> add_moulds(<< >>, moulds),
     skeleton |-> skel,
     mould_cache |-> << >>,
     cache_valid |-> FALSE,
     iter_order |-> order]

\* update_moulds(moulds); order is the iteration order of the new HashMap.
UpdateMoulds(moulds, order) ==
    /\ calls < MaxCalls
    /\ mutex = "free"
    /\ calls' = calls + 1
    /\ LET prev_moulds == last_moulds
           prev_skel == prev_skeleton
           pairs == dirty_pairs(moulds, prev_moulds, skeleton, prev_skel, moved_joint_ids)
       IN IF \E i \in DOMAIN pairs : mould_world_bounds_panics(pairs[i].mould, pairs[i].skel)
          THEN \* last_moulds and prev_skeleton were taken before the panic
               /\ mutex' = "poisoned"
               /\ last_moulds' = << >>
               /\ prev_skeleton' = None
               /\ ret' = Ret("update_moulds", "panic", "none", 0, FALSE)
               /\ UNCHANGED << skeleton, mould_manager, last_skeleton, moved_joint_ids,
                               dirty_bounds, brick_map, brick_map_resolution, last_mesh >>
          ELSE /\ mould_manager' = Some(new_mould_manager(moulds, skeleton, order))
               /\ last_moulds' = moulds
               /\ dirty_bounds' = union_all(None, pairs)
               /\ prev_skeleton' = None
               /\ ret' = Ret("update_moulds", "Ok", "none", 0, FALSE)
               /\ UNCHANGED << mutex, skeleton, last_skeleton, moved_joint_ids,
                               brick_map, brick_map_resolution, last_mesh >>

\* An absent mould manager answered with an empty mesh instead of the error.
GenerateUninitialised_empty_mesh(resolution, fast_mode) ==
    /\ ret' = Ret("generate_mesh", "Ok", "none", resolution, fast_mode)
    /\ last_mesh' = Some(MeshData({}, fast_mode))
    /\ UNCHANGED << mutex, skeleton, mould_manager, last_skeleton, prev_skeleton,
                    last_moulds, moved_joint_ids, dirty_bounds, brick_map,
                    brick_map_resolution >>

\* .ok_or("No mould manager initialized")? on an absent mould manager: the call
\* returns the error.
GenerateUninitialised(resolution, fast_mode) ==
    /\ ret' = Ret("generate_mesh", "Err", "none", resolution, fast_mode)
    /\ UNCHANGED << mutex, pipeline >>

\* generate_mesh_from_state_dense(resolution, fast_mode).  relock is what the
\* second MESH_STATE.lock() does on the thread that already holds the guard:
\* std's Mutex leaves it unspecified, it blocks forever or panics.
GenerateMeshDense(resolution, fast_mode, relock) ==
    /\ calls < MaxCalls
    /\ mutex = "free"
    /\ resolution < BRICK_MAP_THRESHOLD
    /\ calls' = calls + 1
    /\ IF IsNone(mould_manager)
       THEN GenerateUninitialised(resolution, fast_mode)
       ELSE LET mm == Unwrap(mould_manager)
                cached == rebuild_cache(mm)
            IN IF rebuild_cache_panics(mm)
               THEN /\ mutex' = "poisoned"
                    /\ mould_manager' = Some([mm EXCEPT !.mould_cache = << >>])
                    /\ ret' = Ret("generate_mesh", "panic", "dense", resolution, fast_mode)
                    /\ UNCHANGED << skeleton, last_skeleton, prev_skeleton, last_moulds,
                                    moved_joint_ids, dirty_bounds, brick_map,
                                    brick_map_resolution, last_mesh >>
               ELSE IF evaluate_sdf_panics(cached)
               THEN /\ mutex' = "poisoned"
                    /\ mould_manager' = Some(cached)
                    /\ ret' = Ret("generate_mesh", "panic", "dense", resolution, fast_mode)
                    /\ UNCHANGED << skeleton, last_skeleton, prev_skeleton, last_moulds,
                                    moved_joint_ids, dirty_bounds, brick_map,
                                    brick_map_resolution, last_mesh >>
               ELSE \* the mesh is extracted, then the state is locked again
                    /\ mutex' = IF relock = "deadlock" THEN "held" ELSE "poisoned"
                    /\ mould_manager' = Some(cached)
                    /\ ret' = Ret("generate_mesh", relock, "dense", resolution, fast_mode)
                    /\ UNCHANGED << skeleton, last_skeleton, prev_skeleton, last_moulds,
                                    moved_joint_ids, dirty_bounds, brick_map,
                                    brick_map_resolution, last_mesh >>

\* The mesh the dense path extracts for a mould manager whose cache is built.
dense_mesh(mm, resolution, fast_mode) ==
    MeshData(surface_cells_dense(VoxelGrid(resolution, mm)), fast_mode)

\* needs_rebuild of generate_mesh_from_state_brick_map
needs_rebuild(map, map_resolution, resolution) ==
    (IF IsSome(map_resolution) THEN Unwrap(map_resolution) # resolution ELSE TRUE)
        \/ IsNone(map)

\* Which of the three branches the brick path takes.
brick_branch(map, map_resolution, dirty, resolution) ==
    IF needs_rebuild(map, map_resolution, resolution) THEN "rebuild"
    ELSE IF IsSome(dirty) THEN "update"
    ELSE "reuse"

\* The brick map the branch leaves in brick_map.
brick_map_after(branch, map, mm, dirty, resolution) ==
    IF branch = "rebuild"
    THEN allocate_surface_bricks(BrickMap_new(resolution), mm, surface_thickness)
    ELSE IF branch = "update"
    THEN update_surface_bricks_in_bounds(Unwrap(map), mm, Unwrap(dirty), surface_thickness)
    ELSE Unwrap(map)

\* Whether the branch, or the extraction after it, evaluates the SDF.
brick_path_evaluates(branch, new_map, fast_mode) ==
    \/ branch \in {"rebuild", "update"}
    \/ ~fast_mode /\ surface_cells_brick(new_map) # {}

\* generate_mesh_from_state_brick_map(resolution, fast_mode)
GenerateMeshBrick(resolution, fast_mode) ==
    /\ calls < MaxCalls
    /\ mutex = "free"
    /\ resolution >= BRICK_MAP_THRESHOLD
    /\ calls' = calls + 1
    /\ IF IsNone(mould_manager)
       THEN GenerateUninitialised(resolution, fast_mode)
       ELSE LET mm == Unwrap(mould_manager)
                cached == rebuild_cache(mm)
                branch == brick_branch(brick_map, brick_map_resolution, dirty_bounds,
                                       resolution)
                panics == \/ rebuild_cache_panics(mm)
                          \/ branch = "rebuild" /\ BrickMap_new_panics(resolution)
                          \/ /\ evaluate_sdf_panics(cached)
                             /\ brick_path_evaluates(branch,
                                    brick_map_after(branch, brick_map, cached, dirty_bounds,
                                                    resolution), fast_mode)
            IN IF panics
               THEN \* mould manager, brick map, resolution and dirty region were taken
                    /\ mutex' = "poisoned"
                    /\ mould_manager' = None
                    /\ brick_map' = None
                    /\ brick_map_resolution' = None
                    /\ dirty_bounds' = None
                    /\ ret' = Ret("generate_mesh", "panic", branch, resolution, fast_mode)
                    /\ UNCHANGED << skeleton, last_skeleton, prev_skeleton, last_moulds,
                                    moved_joint_ids, last_mesh >>
               ELSE LET new_map == brick_map_after(branch, brick_map, cached, dirty_bounds,
                                                   resolution)
                    IN /\ mould_manager' = Some(cached)
                       /\ brick_map' = Some(new_map)
                       /\ brick_map_resolution' = IF branch = "rebuild" THEN Some(resolution)
                                                  ELSE brick_map_resolution
                       /\ dirty_bounds' = None
                       /\ last_mesh' = Some(MeshData(surface_cells_brick(new_map), fast_mode))
                       /\ ret' = Ret("generate_mesh", "Ok", branch, resolution, fast_mode)
                       /\ UNCHANGED << mutex, skeleton, last_skeleton, prev_skeleton,
                                       last_moulds, moved_joint_ids >>

\* A guard that is dropped as soon as the fields are taken.
guard_dropped(m) == "free"

\* The mutex while the guard of `let mut state = MESH_STATE.lock().unwrap()`
\* is alive: the guard lives to the end of the function.
guard_alive(m) == "held"

\* generate_mesh_from_state_brick_map on its worker thread, up to the takes:
\* the state is locked and the mould manager, brick map, its resolution and
\* the dirty region are moved into locals.
BrickTake(resolution, fast_mode) ==
    /\ calls < MaxCalls
    /\ mutex = "free"
    /\ IsNone(gen)
    /\ resolution >= BRICK_MAP_THRESHOLD
    /\ IsSome(mould_manager)
    /\ calls' = calls + 1
    /\ mutex' = guard_alive(mutex)
    /\ gen' = Some([resolution |-> resolution, fast_mode |-> fast_mode,
                     mould_manager |-> Unwrap(mould_manager), brick_map |-> brick_map,
                     brick_map_resolution |-> brick_map_resolution,
                     dirty_bounds |-> dirty_bounds])
    /\ mould_manager' = None
    /\ brick_map' = None
    /\ brick_map_resolution' = None
    /\ dirty_bounds' = None
    /\ UNCHANGED << skeleton, last_skeleton, prev_skeleton, last_moulds, moved_joint_ids,
                    last_mesh, ret >>

\* The rest of generate_mesh_from_state_brick_map: the map is rebuilt, updated
\* or reused and the mesh extracted from the locals, then everything is
\* stored and the guard dropped; a panic on the way poisons the mutex.
BrickStore ==
    /\ IsSome(gen)
    /\ LET g == Unwrap(gen)
           cached == rebuild_cache(g.mould_manager)
           branch == brick_branch(g.brick_map, g.brick_map_resolution, g.dirty_bounds,
                                  g.resolution)
           panics == \/ rebuild_cache_panics(g.mould_manager)
                     \/ branch = "rebuild" /\ BrickMap_new_panics(g.resolution)
                     \/ /\ evaluate_sdf_panics(cached)
                        /\ brick_path_evaluates(branch,
                               brick_map_after(branch, g.brick_map, cached, g.dirty_bounds,
                                               g.resolution), g.fast_mode)
       IN IF panics
          THEN /\ mutex' = "poisoned"
               /\ ret' = Ret("generate_mesh", "panic", branch, g.resolution, g.fast_mode)
               /\ UNCHANGED pipeline
          ELSE LET new_map == brick_map_after(branch, g.brick_map, cached, g.dirty_bounds,
                                              g.resolution)
               IN /\ mutex' = "free"
                  /\ mould_manager' = Some(cached)
                  /\ brick_map' = Some(new_map)
                  /\ brick_map_resolution' = IF branch = "rebuild" THEN Some(g.resolution)
                                             ELSE g.brick_map_resolution
                  /\ last_mesh' = Some(MeshData(surface_cells_brick(new_map), g.fast_mode))
                  /\ ret' = Ret("generate_mesh", "Ok", branch, g.resolution, g.fast_mode)
                  /\ UNCHANGED << dirty_bounds, skeleton, last_skeleton, prev_skeleton,
                                  last_moulds, moved_joint_ids >>
    /\ gen' = None
    /\ UNCHANGED << calls, dc_vars, ser_vars, control_points, sk_vars, spl_vars, snap >>

\* get_profile_control_points()
GetProfileControlPoints ==
    /\ calls < MaxCalls
    /\ mutex = "free"
    /\ calls' = calls + 1
    /\ IF IsNone(mould_manager)
       THEN /\ ret' = Ret("get_profile_control_points", "Err", "none", 0, FALSE)
            /\ UNCHANGED control_points
       ELSE /\ ret' = Ret("get_profile_control_points", "Ok", "none", 0, FALSE)
            /\ control_points' = get_control_points_world(Unwrap(mould_manager))
    /\ UNCHANGED << mutex, pipeline >>

\* A host call made while the mutex is held forever or poisoned: lock() blocks,
\* or lock().unwrap() panics, before the call touches the state.
CallOnDeadMutex(op) ==
    /\ calls < MaxCalls
    /\ mutex # "free"
    /\ calls' = calls + 1
    /\ ret' = Ret(op, IF mutex = "held" THEN "deadlock" ELSE "panic", "none", 0, FALSE)
    /\ UNCHANGED << mutex, pipeline >>

(***************************************************************************)
(* Dual contouring (mesh/dual_contouring.rs) over a small 3-D grid.        *)
(*                                                                         *)
(* A grid point is <<x, y, z>>; its sample is -1 (below the iso value 0)   *)
(* or 1.  World positions are in half cells: get_position(x, y, z) is      *)
(* <<2x, 2y, 2z>>, so a cell centre is <<2x+1, 2y+1, 2z+1>>.               *)
(* dual_contouring_impl and dual_contouring_generic are the same code over *)
(* VoxelGrid and over the Grid trait.                                      *)
(***************************************************************************)
\* Grid resolution of the extractor model.
GridRes == 3
\* Largest cluster of inside points among the input grids.
MaxInside == 2

iso_value == 0

GridPoints(res) == (0..(res - 1)) \X (0..(res - 1)) \X (0..(res - 1))

Grid_get(grid, x, y, z) == grid.data[<< x, y, z >>]

Grid_get_position(x2, y2, z2) == << x2, y2, z2 >>

cell_intersects_surface(grid, x, y, z, iso) ==
    LET corners == << Grid_get(grid, x, y, z), Grid_get(grid, x + 1, y, z),
                      Grid_get(grid, x + 1, y, z + 1), Grid_get(grid, x, y, z + 1),
                      Grid_get(grid, x, y + 1, z), Grid_get(grid, x + 1, y + 1, z),
                      Grid_get(grid, x + 1, y + 1, z + 1), Grid_get(grid, x, y + 1, z + 1) >>
        has_inside == \E i \in 1..8 : corners[i] < iso
        has_outside == \E i \in 1..8 : ~(corners[i] < iso)
    IN has_inside /\ has_outside

\* The cells (0..res-2)^3 in the order of the nested ranges z, y, x.
cell_at(res, i) ==
    << (i - 1) % (res - 1),
       ((i - 1) \div (res - 1)) % (res - 1),
       (i - 1) \div ((res - 1) * (res - 1)) >>

all_cells(res) == [i \in 1..((res - 1) * (res - 1) * (res - 1)) |-> cell_at(res, i)]

\* f32::clamp
clamp(v, lo, hi) == IF v < lo THEN lo ELSE IF v > hi THEN hi ELSE v

\* find_cell_vertex: the QEF solution clamped into the cell when solve_qef
\* returns one, the Newton projection of the cell centre as it is otherwise.
\* What the two solvers return depends on the SDF: the placement gives it, from
\* the cell's minimum corner and by the cell's parity.
find_cell_vertex(placement, x, y, z) ==
    LET solved == placement[((x + y + z) % 2) + 1]
    IN IF IsSome(solved.qef)
       THEN LET pos == Unwrap(solved.qef)
            IN << 2 * x + clamp(pos[1], 0, 2), 2 * y + clamp(pos[2], 0, 2),
                  2 * z + clamp(pos[3], 0, 2) >>
       ELSE << 2 * x + solved.newton[1], 2 * y + solved.newton[2],
               2 * z + solved.newton[3] >>

\* Step 1: ((x, y, z), vertex_pos) for every surface cell, in cell order.
dc_surface_cells(grid, fast_mode, placement) ==
    LET intersects(c) == cell_intersects_surface(grid, c[1], c[2], c[3], iso_value)
        cells == SelectSeq(all_cells(grid.resolution), intersects)
    IN [i \in DOMAIN cells |->
          LET c == cells[i]
          IN [cell |-> c,
              position |-> IF fast_mode
                           THEN Grid_get_position(2 * c[1] + 1, 2 * c[2] + 1, 2 * c[3] + 1)
                           ELSE find_cell_vertex(placement, c[1], c[2], c[3])]]

\* The index taken after the push instead of before it.
vertex_index_after_push(i) == i

\* vertex_index = vertices.len() / 3 before the push of the i-th surface cell.
vertex_index(i) == i - 1

\* cell_vertices: cell -> CellVertex
cell_vertices_of(surface) ==
    [c \in { surface[i].cell : i \in DOMAIN surface } |->
        LET i == CHOOSE k \in DOMAIN surface : surface[k].cell = c
        IN [position |-> surface[i].position, index |-> vertex_index(i)]]

\* The flat vertices array: x, y, z of every surface cell.
flat_vertices(surface) ==
    [k \in 1..(3 * Len(surface)) |-> surface[((k - 1) \div 3) + 1].position[((k - 1) % 3) + 1]]

Sub3(a, b) == << a[1] - b[1], a[2] - b[2], a[3] - b[3] >>

Cross(a, b) ==
    << a[2] * b[3] - a[3] * b[2], a[3] * b[1] - a[1] * b[3], a[1] * b[2] - a[2] * b[1] >>

\* Squared Euclidean distance (distance() compares monotonically with it).
distance2(a, b) ==
    LET d == Sub3(a, b) IN d[1] * d[1] + d[2] * d[2] + d[3] * d[3]

\* The four cells create_face_x / create_face_y / create_face_z look up.
face_cells(axis, x, y, z) ==
    IF axis = 1 THEN << << x, y, z >>, << x, y, z + 1 >>, << x, y + 1, z + 1 >>, << x, y + 1, z >> >>
    ELSE IF axis = 2 THEN << << x, y, z >>, << x + 1, y, z >>, << x + 1, y, z + 1 >>, << x, y, z + 1 >> >>
    ELSE << << x, y, z >>, << x + 1, y, z >>, << x + 1, y + 1, z >>, << x, y + 1, z >> >>

\* flip of create_face_*: the face normal's component along the face's axis.
face_flip(face_normal, axis) == face_normal[axis] < 0

\* The quad with a face normal of zero component along the axis dropped.
quad_triangles_cull_degenerate(v0, v1, v2, v3, axis) ==
    LET e1 == Sub3(v1.position, v0.position)
        e2 == Sub3(v3.position, v0.position)
    IN IF Cross(e1, e2)[axis] = 0 THEN << >>
       ELSE << v0.index, v1.index, v2.index, v0.index, v2.index, v3.index >>

\* The two triangles create_face_* push for the quad v0 v1 v2 v3: split along
\* the shorter diagonal, wound by flip.
quad_triangles(v0, v1, v2, v3, axis) ==
    LET e1 == Sub3(v1.position, v0.position)
        e2 == Sub3(v3.position, v0.position)
        flip == face_flip(Cross(e1, e2), axis)
        diag02 == distance2(v0.position, v2.position)
        diag13 == distance2(v1.position, v3.position)
    IN IF diag02 < diag13
       THEN IF flip
            THEN << v0.index, v2.index, v1.index, v0.index, v3.index, v2.index >>
            ELSE << v0.index, v1.index, v2.index, v0.index, v2.index, v3.index >>
       ELSE IF flip
            THEN << v0.index, v3.index, v1.index, v1.index, v3.index, v2.index >>
            ELSE << v0.index, v1.index, v3.index, v1.index, v2.index, v3.index >>

\* create_face_x / _y / _z: the six indices pushed, or none when one of the
\* four cells has no vertex.
create_face(cell_vertices, axis, x, y, z) ==
    LET fc == face_cells(axis, x, y, z)
    IN IF \E k \in 1..4 : fc[k] \notin DOMAIN cell_vertices THEN << >>
       ELSE quad_triangles(cell_vertices[fc[1]], cell_vertices[fc[2]],
                           cell_vertices[fc[3]], cell_vertices[fc[4]], axis)

\* The grid point one step from (x, y, z) along the axis.
step(axis, x, y, z) ==
    << x + (IF axis = 1 THEN 1 ELSE 0), y + (IF axis = 2 THEN 1 ELSE 0),
       z + (IF axis = 3 THEN 1 ELSE 0) >>

\* The range guard of step 2 for the face along the axis.
face_in_range(res, axis, x, y, z) ==
    IF axis = 1 THEN x < res - 1 /\ y < res - 2 /\ z < res - 2
    ELSE IF axis = 2 THEN y < res - 1 /\ x < res - 2 /\ z < res - 2
    ELSE z < res - 1 /\ x < res - 2 /\ y < res - 2

\* The sign-change guard: s0 != s1 along the axis from corner (x, y, z).
sign_change(grid, axis, x, y, z) ==
    LET s0 == Grid_get(grid, x, y, z) < iso_value
        s1 == grid.data[step(axis, x, y, z)] < iso_value
    IN s0 # s1

\* Step 2 for one cell and one axis: the indices it contributes.
cell_face(grid, cell_vertices, axis, c) ==
    IF face_in_range(grid.resolution, axis, c[1], c[2], c[3])
       /\ sign_change(grid, axis, c[1], c[2], c[3])
    THEN create_face(cell_vertices, axis, c[1], c[2], c[3])
    ELSE << >>

\* The quads step 2 emits: the cell and axis that triggered each, with its six
\* indices.  face_coords are the keys of cell_vertices, taken in cell order.
quads_of(grid, surface) ==
    LET cv == cell_vertices_of(surface)
        slot(k) == [cell |-> surface[((k - 1) \div 3) + 1].cell,
                    axis |-> ((k - 1) % 3) + 1,
                    tris |-> cell_face(grid, cv, ((k - 1) % 3) + 1,
                                       surface[((k - 1) \div 3) + 1].cell)]
        slots == [k \in 1..(3 * Len(surface)) |-> slot(k)]
        emitted(q) == q.tris # << >>
    IN SelectSeq(slots, emitted)

\* The flat index array: the six indices of every quad.
flat_indices(quads) ==
    [k \in 1..(6 * Len(quads)) |-> quads[((k - 1) \div 6) + 1].tris[((k - 1) % 6) + 1]]

\* compute_normals (fast mode) allocates vertices.len() floats;
\* compute_normals_from_sdf pushes three floats per vertex.  The values are
\* not modelled, only the layout.
normals_len(vertices, fast_mode) ==
    IF fast_mode THEN Len(vertices) ELSE 3 * (Len(vertices) \div 3)

\* dual_contouring_impl / dual_contouring_generic
dual_contouring(grid, fast_mode, placement) ==
    LET surface == dc_surface_cells(grid, fast_mode, placement)
        quads == quads_of(grid, surface)
        vertices == flat_vertices(surface)
    IN [vertices |-> vertices,
        indices |-> flat_indices(quads),
        normals_len |-> normals_len(vertices, fast_mode),
        fast_mode |-> fast_mode,
        surface |-> surface,
        quads |-> quads]

(***************************************************************************)
(* The extractor's inputs: grids whose inside region is an axis-aligned    *)
(* box, the complement of one, or a small cluster of adjacent points.      *)
(***************************************************************************)
Box(res, lo, hi) ==
    { p \in GridPoints(res) : \A k \in 1..3 : lo[k] <= p[k] /\ p[k] <= hi[k] }

Boxes(res) == { Box(res, lo, hi) : lo \in GridPoints(res), hi \in GridPoints(res) }

adjacent(p, q) == \A k \in 1..3 : Abs(p[k] - q[k]) <= 1

RECURSIVE Clusters(_, _)
Clusters(res, n) ==
    IF n = 0 THEN { {} }
    ELSE LET smaller == Clusters(res, n - 1)
         IN smaller \cup
            UNION { { S \cup {p} : p \in { q \in GridPoints(res) :
                                                \A r \in S : adjacent(q, r) } } :
                    S \in smaller }

InsideSets(res) ==
    Boxes(res) \cup { GridPoints(res) \ b : b \in Boxes(res) } \cup Clusters(res, MaxInside)

GridOf(res, inside) ==
    [resolution |-> res,
     data |-> [p \in GridPoints(res) |-> IF p \in inside THEN -1 ELSE 1]]

Grids == { GridOf(GridRes, inside) : inside \in InsideSets(GridRes) }

\* solve_qef returned this point (possibly outside the cell).
qef_at(pos) == [qef |-> Some(pos), newton |-> << 1, 1, 1 >>]

\* solve_qef returned None and project_to_surface_newton this point.
newton_at(pos) == [qef |-> None, newton |-> pos]

\* What the solvers return for a cell, from the cell's minimum corner in half
\* cells: QEF solutions inside and outside the cell, and a Newton projection
\* that left the cell.
Solved ==
    { qef_at(<< 1, 1, 1 >>), qef_at(<< 0, 2, 1 >>), qef_at(<< 3, 0, -1 >>),
      newton_at(<< 3, 1, -1 >>) }

Placements == Solved \X Solved

\* One extraction of the grid, in fast or quality mode.
Extract(fast_mode, placement) ==
    /\ dc_mesh = None
    /\ dc_mesh' = Some(dual_contouring(dc_grid, fast_mode, placement))
    /\ UNCHANGED << dc_grid, pipeline, mutex, ret, calls, ser_vars, control_points,
                    components >>

(***************************************************************************)
(* Mesh serialization (main.rs).  An element of vertices, indices or       *)
(* normals is its 32-bit word (the bit pattern of the f32, the value of    *)
(* the u32), a byte is a number in 0..255.                                 *)
(***************************************************************************)
\* Largest array length of the serialized meshes.
MaxArr == 2

\* u32::to_le_bytes
to_le_bytes(w) ==
    << w % 256, (w \div 256) % 256, (w \div 65536) % 256, (w \div 16777216) % 256 >>

\* The four bytes an element occupies in memory on the build target.
memory_bytes(w, endian) ==
    IF endian = "little" THEN to_le_bytes(w)
    ELSE << to_le_bytes(w)[4], to_le_bytes(w)[3], to_le_bytes(w)[2], to_le_bytes(w)[1] >>

\* std::slice::from_raw_parts(array.as_ptr() as *const u8, len): the first len
\* bytes of the array's memory.
from_raw_parts(array, len, endian) ==
    [k \in 1..len |-> memory_bytes(array[((k - 1) \div 4) + 1], endian)[((k - 1) % 4) + 1]]

\* (array.len() * size_of::<f32>()) as u32; the cast is exact below 2^30
\* elements.
data_len_bytes(array) == Len(array) * 4

\* Header whose fields are the element counts instead of the byte lengths.
header_of_counts(mesh) ==
    to_le_bytes(Len(mesh.vertices)) \o to_le_bytes(Len(mesh.indices))
        \o to_le_bytes(Len(mesh.normals))

\* The three extend_from_slice(&..._len_bytes.to_le_bytes()) calls.
header(mesh) ==
    to_le_bytes(data_len_bytes(mesh.vertices)) \o to_le_bytes(data_len_bytes(mesh.indices))
        \o to_le_bytes(data_len_bytes(mesh.normals))

serialize_mesh_to_bytes(mesh, endian) ==
    header(mesh)
        \o from_raw_parts(mesh.vertices, data_len_bytes(mesh.vertices), endian)
        \o from_raw_parts(mesh.indices, data_len_bytes(mesh.indices), endian)
        \o from_raw_parts(mesh.normals, data_len_bytes(mesh.normals), endian)

\* Element words: 0x01020304 and 0x3F800000 (the f32 1.0).
Words == {16909060, 1065353216}

Arrays == UNION { [1..n -> Words] : n \in 0..MaxArr }

Meshes == [vertices : Arrays, indices : Arrays, normals : Arrays]

\* No mesh is being serialized.
SerIdle ==
    /\ ser_mesh = [vertices |-> << >>, indices |-> << >>, normals |-> << >>]
    /\ ser_bytes = None
    /\ target_endian = "little"

\* generate_mesh_binary: let bytes = serialize_mesh_to_bytes(mesh)
Serialize ==
    /\ ser_bytes = None
    /\ ser_bytes' = Some(serialize_mesh_to_bytes(ser_mesh, target_endian))
    /\ UNCHANGED << ser_mesh, target_endian, pipeline, mutex, ret, calls, dc_vars,
                    control_points, components >>

(***************************************************************************)
(* The Skeleton's methods (mesh/skeleton.rs), called directly.             *)
(***************************************************************************)
\* Joints handed to add_joint: root j1 and its child j2.
SkJoints ==
    { JointData("j1", 0, None), JointData("j1", 64, None),
      JointData("j2", 0, Some("j1")), JointData("j2", 64, Some("j1")) }

SkIds == {"j1", "j2"}

SkOffsets == {0, 64}

\* Every step of the skeleton leaves the rest alone.
SkStep ==
    /\ calls < MaxCalls
    /\ calls' = calls + 1
    /\ UNCHANGED << pipeline, mutex, ret, dc_vars, ser_vars, control_points, spl_vars,
                    snap, gen >>

\* add_joint(joint)
SkAddJoint(joint) ==
    /\ SkStep
    /\ sk' = invalidate_cache([sk EXCEPT !.joints = (joint.id :> joint) @@ sk.joints])
    /\ sk_ret' = None

\* move_joint(joint_id, offset): the cache is dropped even when the joint is
\* not found.
SkMoveJoint(joint_id, offset) ==
    /\ SkStep
    /\ sk' = invalidate_cache(
                IF joint_id \in DOMAIN sk.joints
                THEN [sk EXCEPT !.joints[joint_id].local_offset = @ + offset]
                ELSE sk)
    /\ sk_ret' = None

\* set_joint_local_rotation(joint_id, rotation): rotations are the identity
\* here, so only the invalidation shows.
SkSetJointLocalRotation(joint_id) ==
    /\ SkStep
    /\ sk' = invalidate_cache(sk)
    /\ sk_ret' = None

\* if let Some(joint) = get_joint_mut(joint_id) { joint.local_offset = offset }
SkEditJoint(joint_id, offset) ==
    /\ SkStep
    /\ sk' = IF joint_id \in DOMAIN sk.joints
             THEN [sk EXCEPT !.joints[joint_id].local_offset = offset]
             ELSE sk
    /\ sk_ret' = None

\* get_world_transform(joint_id): a cache hit returns, a miss computes (or
\* panics on a joint that is not found), stores and validates the cache.
SkGetWorldTransform(joint_id) ==
    /\ SkStep
    /\ IF sk.cache_valid /\ joint_id \in DOMAIN sk.world_transform_cache
       THEN /\ sk_ret' = Some(sk.world_transform_cache[joint_id])
            /\ sk' = sk
       ELSE IF JointFound(sk, joint_id)
       THEN /\ sk_ret' = Some(compute_world_transform(sk, joint_id))
            /\ sk' = [sk EXCEPT
                        !.world_transform_cache =
                            (joint_id :> compute_world_transform(sk, joint_id)) @@ @,
                        !.cache_valid = TRUE]
       ELSE /\ sk_ret' = Some("panic")
            /\ sk' = sk

(***************************************************************************)
(* The spline samplers in f32 (mesh/spline.rs). An f32 is an integer count *)
(* of 2^-30; the control values lie in [1/8, 1/4), where an f32 is a       *)
(* multiple of 2^-26, so that every product below is an integer.           *)
(***************************************************************************)
\* Unit in the last place of an f32 of magnitude m: 24 significant bits.
RECURSIVE f32_ulp(_)
f32_ulp(m) == IF m < 16777216 THEN 1 ELSE 2 * f32_ulp(m \div 2)

\* The f32 nearest to x, ties to even: the result of one f32 operation whose
\* exact result is x.
f32_round(x) ==
    LET m == Abs(x)
        u == f32_ulp(m)
        q == m \div u
        r == m % u
        y == (IF 2 * r > u \/ (2 * r = u /\ q % 2 = 1) THEN q + 1 ELSE q) * u
    IN IF x < 0 THEN -y ELSE y

\* A cubic that starts from p0 instead of p1: d = p0.
catmull_rom_from_p0(p0, p1, p2, p3, num, den) ==
    LET a == f32_round(f32_round(f32_round((-p0) \div 2 + f32_round((3 * p1) \div 2))
                                     - f32_round((3 * p2) \div 2)) + p3 \div 2)
        b == f32_round(f32_round(f32_round(p0 - f32_round((5 * p1) \div 2)) + 2 * p2)
                           - p3 \div 2)
        c == f32_round((-p0) \div 2 + p2 \div 2)
        d == p0
    IN f32_round(f32_round(f32_round((a * num * num * num) \div (den * den * den)
                                         + (b * num * num) \div (den * den))
                               + (c * num) \div den) + d)

\* catmull_rom(p0, p1, p2, p3, t) at t = num / den in {0, 1/2, 1}, where t * t,
\* t2 * t and the products with them are exact.
catmull_rom_f32(p0, p1, p2, p3, num, den) ==
    LET a == f32_round(f32_round(f32_round((-p0) \div 2 + f32_round((3 * p1) \div 2))
                                     - f32_round((3 * p2) \div 2)) + p3 \div 2)
        b == f32_round(f32_round(f32_round(p0 - f32_round((5 * p1) \div 2)) + 2 * p2)
                           - p3 \div 2)
        c == f32_round((-p0) \div 2 + p2 \div 2)
        d == p1
    IN f32_round(f32_round(f32_round((a * num * num * num) \div (den * den * den)
                                         + (b * num * num) \div (den * den))
                               + (c * num) \div den) + d)

\* catmull_rom_array(values, t) at t = num / den in {-1/2, 0, 1/2, 1, 3/2}:
\* two values are interpolated before t is clamped.
catmull_rom_array_f32(values, num, den) ==
    IF values = << >> THEN 0
    ELSE IF Len(values) = 1 THEN values[1]
    ELSE IF Len(values) = 2
    THEN f32_round(f32_round((values[1] * (den - num)) \div den)
                       + f32_round((values[2] * num) \div den))
    ELSE LET t_clamped == IF num < 0 THEN 0 ELSE IF num > den THEN den ELSE num
             num_segments == Len(values) - 1
             segment_idx == Min2((t_clamped * num_segments) \div den, num_segments - 1)
             local == t_clamped * num_segments - segment_idx * den
             p0 == IF segment_idx = 0 THEN values[1] ELSE values[segment_idx]
             p1 == values[segment_idx + 1]
             p2 == values[segment_idx + 2]
             p3 == IF segment_idx + 2 >= Len(values) THEN values[Len(values)]
                   ELSE values[segment_idx + 3]
         IN catmull_rom_f32(p0, p1, p2, p3, local, den)

\* catmull_rom_closed(values, angle) at an angle of turns whole turns (0.0 or
\* 2.0 * PI), which angle % (2.0 * PI) and the sum after it normalize exactly.
catmull_rom_closed_f32(values, turns) ==
    IF values = << >> THEN 0
    ELSE IF Len(values) = 1 THEN values[1]
    ELSE LET n == Len(values)
             normalized == ((turns % 1) + 1) % 1
             t == normalized * n
             segment_idx == t % n
             local_t == t - segment_idx
         IN catmull_rom_f32(values[((segment_idx + n - 1) % n) + 1], values[segment_idx + 1],
                            values[((segment_idx + 1) % n) + 1],
                            values[((segment_idx + 2) % n) + 1], local_t, 1)

\* The f32 nearest to 0.13, 0.17, 0.2, 0.204 and 0.24.
SplValues == {139586432, 182536112, 214748368, 219043328, 257698032}

\* Longest array of control values sampled.
MaxLen == 4

\* Control value arrays of one to MaxLen values.
SplArrays == UNION { [1..n -> SplValues] : n \in 1..MaxLen }

SplCall(op, num, den, value) == [op |-> op, num |-> num, den |-> den, value |-> value]

\* Every sampler call leaves the rest alone.
SplStep ==
    UNCHANGED << spl_values, pipeline, mutex, ret, calls, dc_vars, ser_vars,
                 control_points, sk_vars, snap, gen >>

\* catmull_rom(values[0], values[1], values[2], values[3], t)
SplCatmullRom(num, den) ==
    /\ Len(spl_values) = 4
    /\ spl_ret' = Some(SplCall("catmull_rom", num, den,
                               catmull_rom_f32(spl_values[1], spl_values[2], spl_values[3],
                                               spl_values[4], num, den)))
    /\ SplStep

\* catmull_rom_array(&values, t)
SplCatmullRomArray(num, den) ==
    /\ spl_ret' = Some(SplCall("catmull_rom_array", num, den,
                               catmull_rom_array_f32(spl_values, num, den)))
    /\ SplStep

\* catmull_rom_closed(&values, angle), angle a whole number of turns
SplCatmullRomClosed(turns) ==
    /\ spl_ret' = Some(SplCall("catmull_rom_closed", turns, 1,
                               catmull_rom_closed_f32(spl_values, turns)))
    /\ SplStep

(***************************************************************************)
(* request_snapshot (main.rs) and the snapshot-done events of the host.    *)
(***************************************************************************)
\* Most snapshot-done events the host emits during one behaviour.
MaxReplies == 3

\* snapshot-done payloads: empty, a JSON object with a path string, a JSON
\* object without one, text that starts with a brace and is no JSON, and a
\* bare string. json_path is v.get("path").and_then(|v| v.as_str()) where the
\* text parses.
Payload(text, json_path) == [text |-> text, json_path |-> json_path]

Payloads ==
    { Payload("", None),
      Payload("{path:/a.png}", Some("/a.png")),
      Payload("{path:null}", None),
      Payload("{", None),
      Payload("/b.png", None) }

starts_with_brace(text) == text \in {"{path:/a.png}", "{path:null}", "{"}

\* The handler's path_opt for a payload.
path_opt(payload) ==
    IF payload.text # ""
    THEN IF starts_with_brace(payload.text) THEN payload.json_path
         ELSE Some(payload.text)
    ELSE None

\* The send of a later event replaces the value in the channel.
handle_event_resend(s, payload) ==
    [s EXCEPT !.tx = FALSE, !.chan = Some(path_opt(payload)),
              !.handled = Append(@, path_opt(payload))]

\* The listener's handler: the first event takes the sender out of the
\* Option and sends path_opt; later events find None.
handle_event(s, payload) ==
    IF s.tx
    THEN [s EXCEPT !.tx = FALSE, !.chan = Some(path_opt(payload)),
                   !.handled = Append(@, path_opt(payload))]
    ELSE [s EXCEPT !.handled = Append(@, path_opt(payload))]

\* Result<Option<String>, String>
SnapOk(value) == [ok |-> TRUE, value |-> value, error |-> ""]

SnapErr(message) == [ok |-> FALSE, value |-> None, error |-> message]

\* request_snapshot has not been called. handled lists the path_opt of every
\* event the handler ran for, returned is what the call returned.
SnapIdle ==
    snap = [pc |-> "start", listener |-> FALSE, tx |-> FALSE, chan |-> None,
            handled |-> << >>, res |-> None, returned |-> None, replies |-> 0]

\* Every step of request_snapshot and every event leaves the rest alone.
SnapStep ==
    UNCHANGED << pipeline, mutex, ret, calls, dc_vars, ser_vars, control_points,
                 sk_vars, spl_vars, gen >>

\* let (tx, rx) = oneshot::channel(); let listener_id = app.listen(...)
SnapListen ==
    /\ snap.pc = "start"
    /\ snap' = [snap EXCEPT !.pc = "emit", !.listener = TRUE, !.tx = TRUE]
    /\ SnapStep

\* The emit of request-snapshot to the main window: it succeeds, or there is
\* no main window, or the emit fails; both failures unlisten and return.
SnapEmit(outcome) ==
    /\ snap.pc = "emit"
    /\ snap' = IF outcome = "emitted" THEN [snap EXCEPT !.pc = "wait"]
               ELSE [snap EXCEPT !.pc = "done", !.listener = FALSE,
                                 !.returned = Some(SnapErr(outcome))]
    /\ SnapStep

\* time::timeout(.., rx).await: the value sent is received.
SnapReceive ==
    /\ snap.pc = "wait"
    /\ IsSome(snap.chan)
    /\ snap' = [snap EXCEPT !.pc = "cleanup", !.res = Some(SnapOk(Unwrap(snap.chan)))]
    /\ SnapStep

\* time::timeout(.., rx).await: the timeout elapses with nothing sent; rx is
\* dropped.
SnapTimeout ==
    /\ snap.pc = "wait"
    /\ IsNone(snap.chan)
    /\ snap' = [snap EXCEPT !.pc = "cleanup",
                            !.res = Some(SnapErr("timeout waiting for snapshot"))]
    /\ SnapStep

\* app_clone.unlisten(listener_id); res
SnapCleanup ==
    /\ snap.pc = "cleanup"
    /\ snap' = [snap EXCEPT !.pc = "done", !.listener = FALSE, !.returned = snap.res]
    /\ SnapStep

\* The host emits snapshot-done: the handler runs when the listener is
\* registered.
SnapReply(payload) ==
    /\ snap.replies < MaxReplies
    /\ snap' = [(IF snap.listener THEN handle_event(snap, payload) ELSE snap)
                   EXCEPT !.replies = @ + 1]
    /\ SnapStep

\* The steps of the call itself.
SnapProgress ==
    \/ SnapListen
    \/ \E outcome \in {"emitted", "no main window to emit to", "emit failed"} :
          SnapEmit(outcome)
    \/ SnapReceive
    \/ SnapTimeout
    \/ SnapCleanup

\* A new Skeleton on which nothing was called.
SkIdle ==
    /\ sk = Skeleton_new
    /\ sk_ret = None

\* No sampler was called.
SplIdle ==
    /\ spl_values = << >>
    /\ spl_ret = None

ComponentsIdle == SkIdle /\ SplIdle /\ SnapIdle /\ gen = None

(***************************************************************************)
(* Specifications.                                                         *)
(***************************************************************************)
\* The pipeline behind its mutex; the extractor is abstracted into the
\* pipeline's actions.
Init ==
    /\ PipelineInit
    /\ dc_grid = None
    /\ dc_mesh = None
    /\ SerIdle
    /\ ComponentsIdle

Next ==
    \/ \E joints \in JointLists : UpdateSkeleton(joints) /\ UNCHANGED outside
    \/ \E moulds \in MouldLists : \E order \in IterOrders(mould_ids(moulds)) :
          UpdateMoulds(moulds, order) /\ UNCHANGED outside
    \/ \E resolution \in Resolutions, fast_mode \in BOOLEAN :
          \E relock \in {"deadlock", "panic"} :
             GenerateMeshDense(resolution, fast_mode, relock) /\ UNCHANGED outside
    \/ \E resolution \in Resolutions, fast_mode \in BOOLEAN :
          GenerateMeshBrick(resolution, fast_mode) /\ UNCHANGED outside
    \/ \E op \in {"update_skeleton", "update_moulds", "generate_mesh"} :
          CallOnDeadMutex(op) /\ UNCHANGED outside

Spec == Init /\ [][Next]_vars

\* The extractor alone, on every input grid.
InitDC ==
    /\ PipelineInit
    /\ dc_grid \in Grids
    /\ dc_mesh = None
    /\ SerIdle
    /\ ComponentsIdle

NextDC == \E fast_mode \in BOOLEAN, placement \in Placements : Extract(fast_mode, placement)

SpecDC == InitDC /\ [][NextDC]_vars

\* The pipeline with profiled capsules and get_profile_control_points.
NextCP ==
    \/ \E joints \in JointLists : UpdateSkeleton(joints) /\ UNCHANGED outside
    \/ \E moulds \in ProfiledMouldLists : \E order \in IterOrders(mould_ids(moulds)) :
          UpdateMoulds(moulds, order) /\ UNCHANGED outside
    \/ \E resolution \in DenseResolutions, fast_mode \in BOOLEAN :
          \E relock \in {"deadlock", "panic"} :
             GenerateMeshDense(resolution, fast_mode, relock) /\ UNCHANGED outside
    \/ \E resolution \in BrickResolutions, fast_mode \in BOOLEAN :
          GenerateMeshBrick(resolution, fast_mode) /\ UNCHANGED outside
    \/ GetProfileControlPoints /\ UNCHANGED << dc_vars, ser_vars, components >>
    \/ \E op \in {"update_skeleton", "update_moulds", "generate_mesh",
                   "get_profile_control_points"} :
          CallOnDeadMutex(op) /\ UNCHANGED outside

SpecCP == Init /\ [][NextCP]_vars

\* The pipeline over a mould larger than the allocation band.
NextLarge ==
    \/ \E joints \in JointLists : UpdateSkeleton(joints) /\ UNCHANGED outside
    \/ \E moulds \in LargeMouldLists : \E order \in IterOrders(mould_ids(moulds)) :
          UpdateMoulds(moulds, order) /\ UNCHANGED outside
    \/ \E resolution \in DenseResolutions, fast_mode \in BOOLEAN :
          \E relock \in {"deadlock", "panic"} :
             GenerateMeshDense(resolution, fast_mode, relock) /\ UNCHANGED outside
    \/ \E resolution \in BrickResolutions, fast_mode \in BOOLEAN :
          GenerateMeshBrick(resolution, fast_mode) /\ UNCHANGED outside
    \/ \E op \in {"update_skeleton", "update_moulds", "generate_mesh"} :
          CallOnDeadMutex(op) /\ UNCHANGED outside

SpecLarge == Init /\ [][NextLarge]_vars

\* update_skeleton alone, over joint hierarchies.
NextSkel ==
    \/ \E joints \in JointTrees : UpdateSkeleton(joints) /\ UNCHANGED outside
    \/ CallOnDeadMutex("update_skeleton") /\ UNCHANGED outside

SpecSkel == Init /\ [][NextSkel]_vars

\* A Skeleton used directly through its public methods.
NextCache ==
    \/ \E joint \in SkJoints : SkAddJoint(joint)
    \/ \E joint_id \in SkIds, offset \in SkOffsets : SkMoveJoint(joint_id, offset)
    \/ \E joint_id \in SkIds : SkSetJointLocalRotation(joint_id)
    \/ \E joint_id \in SkIds, offset \in SkOffsets : SkEditJoint(joint_id, offset)
    \/ \E joint_id \in SkIds : SkGetWorldTransform(joint_id)

SpecCache == Init /\ [][NextCache]_vars

\* The spline samplers alone, on every array of control values.
InitSpl ==
    /\ PipelineInit
    /\ dc_grid = None
    /\ dc_mesh = None
    /\ SerIdle
    /\ SkIdle
    /\ SnapIdle
    /\ gen = None
    /\ spl_values \in SplArrays
    /\ spl_ret = None

NextSpl ==
    \/ \E t \in {<< 0, 1 >>, << 1, 1 >>} : SplCatmullRom(t[1], t[2])
    \/ \E t \in {<< -1, 2 >>, << 0, 1 >>, << 1, 2 >>, << 1, 1 >>, << 3, 2 >>} :
          SplCatmullRomArray(t[1], t[2])
    \/ \E turns \in {0, 1} : SplCatmullRomClosed(turns)

SpecSpl == InitSpl /\ [][NextSpl]_vars

\* One request_snapshot call among snapshot-done events; the runtime polls
\* the call and its timer fires.
NextSnap ==
    \/ SnapListen
    \/ \E outcome \in {"emitted", "no main window to emit to", "emit failed"} :
          SnapEmit(outcome)
    \/ SnapReceive
    \/ SnapTimeout
    \/ SnapCleanup
    \/ \E payload \in Payloads : SnapReply(payload)

SpecSnap == Init /\ [][NextSnap]_vars /\ WF_vars(SnapProgress)

\* Host calls from concurrent threads: a call that waits for the mutex acts
\* when it gets it; the brick-path generate_mesh is split at its takes, where
\* another thread could act if the mutex were free.
NextConc ==
    \/ \E joints \in JointLists : UpdateSkeleton(joints) /\ UNCHANGED outside
    \/ \E moulds \in LargeMouldLists : \E order \in IterOrders(mould_ids(moulds)) :
          UpdateMoulds(moulds, order) /\ UNCHANGED outside
    \/ \E resolution \in DenseResolutions, fast_mode \in BOOLEAN :
          \E relock \in {"deadlock", "panic"} :
             GenerateMeshDense(resolution, fast_mode, relock) /\ UNCHANGED outside
    \/ \E resolution \in BrickResolutions, fast_mode \in BOOLEAN :
          /\ IsNone(mould_manager)
          /\ IsNone(gen)
          /\ GenerateMeshBrick(resolution, fast_mode)
          /\ UNCHANGED outside
    \/ \E resolution \in BrickResolutions \cup BadResolutions, fast_mode \in BOOLEAN :
          BrickTake(resolution, fast_mode) /\ UNCHANGED << dc_vars, ser_vars, control_points,
                                                          sk_vars, spl_vars, snap >>
    \/ BrickStore
    \/ GetProfileControlPoints /\ UNCHANGED << dc_vars, ser_vars, components >>
    \/ \E op \in {"update_skeleton", "update_moulds", "generate_mesh",
                   "get_profile_control_points"} :
          IsNone(gen) /\ CallOnDeadMutex(op) /\ UNCHANGED outside

SpecConc == Init /\ [][NextConc]_vars

\* The serializer alone, on every mesh and both byte orders.
InitSer ==
    /\ PipelineInit
    /\ dc_grid = None
    /\ dc_mesh = None
    /\ ser_mesh \in Meshes
    /\ ser_bytes = None
    /\ target_endian \in {"little", "big"}
    /\ ComponentsIdle

NextSer == Serialize

SpecSer == InitSer /\ [][NextSer]_vars

(***************************************************************************)
(* Properties of the pipeline coordinator.                                 *)
(***************************************************************************)
\* A call that took the lock and ran one of the brick path's branches.
BrickBranches == {"rebuild", "update", "reuse"}

Parentless(moulds) == \A i \in DOMAIN moulds : IsNone(moulds[i].parent_joint_id)

Contains(region, bounds) ==
    /\ IsSome(region)
    /\ Unwrap(region).min <= bounds.min
    /\ bounds.max <= Unwrap(region).max

\* C1: a dense-path generate_mesh (resolution < 96) made while a mould manager
\* is initialised, and whose transform cache could be built, returns the mesh,
\* stores it as the last mesh and leaves the mutex free.
C1_DenseGenerateReturnsMesh ==
    (/\ ret.op = "generate_mesh"
     /\ ret.branch = "dense"
     /\ IsSome(mould_manager)
     /\ Unwrap(mould_manager).cache_valid)
    => /\ ret.outcome = "Ok"
       /\ mutex = "free"
       /\ last_mesh = Some(dense_mesh(Unwrap(mould_manager), ret.resolution, ret.fast_mode))

\* C2: a generate_mesh made before any update_moulds (no mould manager, the
\* mutex free) returns the error, for every resolution and mode, and leaves the
\* pipeline state and the mutex as they were.
C2_GenerateBeforeMouldsErrs ==
    [][(/\ calls' = calls + 1
        /\ ret'.op = "generate_mesh"
        /\ mutex = "free"
        /\ IsNone(mould_manager))
       => /\ ret'.outcome = "Err"
          /\ pipeline' = pipeline
          /\ mutex' = "free"]_vars

\* C2 witness: both paths have returned the error on a pipeline that already
\* holds a skeleton.
C2_Witness ==
    /\ ret.op = "generate_mesh"
    /\ ret.outcome = "Err"
    /\ ret.resolution >= BRICK_MAP_THRESHOLD
    /\ IsSome(skeleton)
    /\ IsNone(mould_manager)
    /\ calls >= 3

\* C3: after a brick-path generate_mesh that reused the cached brick map, with
\* the transform cache built, the cached map equals the two-pass allocation of
\* a fresh map for the current skeleton and moulds at that resolution.
C3_ReusedBrickMapIsFresh ==
    (/\ ret.op = "generate_mesh"
     /\ ret.outcome = "Ok"
     /\ ret.branch = "reuse"
     /\ Unwrap(mould_manager).cache_valid)
    => Unwrap(brick_map)
         = allocate_surface_bricks(BrickMap_new(ret.resolution), Unwrap(mould_manager),
                                   surface_thickness)

\* C4: after an update_moulds, for every parentless mould that changed and was
\* in the previous list (parentless there too), the pending dirty region
\* contains its previous and its new world bounds.
C4_DirtyCoversOldAndNew ==
    [][(/\ calls' = calls + 1
        /\ ret'.op = "update_moulds"
        /\ ret'.outcome = "Ok")
       => \A i \in DOMAIN last_moulds' :
             LET new == last_moulds'[i]
                 old == prev_mould(last_moulds, new.id)
             IN (/\ IsSome(old)
                 /\ IsNone(new.parent_joint_id)
                 /\ IsNone(Unwrap(old).parent_joint_id)
                 /\ mould_changed(new, last_moulds, moved_joint_ids))
                => /\ Contains(dirty_bounds', mould_world_bounds(Unwrap(old), SkeletonOf(<< >>)))
                   /\ Contains(dirty_bounds', mould_world_bounds(new, SkeletonOf(<< >>)))]_vars

\* C5: a pending dirty region survives an update_moulds that submits the same
\* mould list again (the new pending region contains it) and every dense-path
\* generate_mesh.
C5_DirtyStaysPending ==
    [][(/\ calls' = calls + 1
        /\ IsSome(dirty_bounds)
        /\ \/ ret'.op = "update_moulds" /\ ret'.outcome = "Ok" /\ last_moulds' = last_moulds
           \/ ret'.op = "generate_mesh" /\ ret'.branch = "dense")
       => Contains(dirty_bounds', Unwrap(dirty_bounds))]_vars

\* C6: after a brick-path generate_mesh at a multiple of the brick size, made
\* with a mould manager of parentless moulds, the pending dirty region is empty
\* and the cached resolution is the requested one.
C6_BrickPathPostState ==
    (/\ ret.op = "generate_mesh"
     /\ ret.branch \in BrickBranches
     /\ ret.resolution % BRICK_SIZE = 0
     /\ Parentless(last_moulds))
    => /\ dirty_bounds = None
       /\ brick_map_resolution = Some(ret.resolution)

\* C7: with parentless moulds submitted and no update_skeleton ever, a
\* brick-path generate_mesh at a multiple of the brick size succeeds.
C7_ParentlessWithoutSkeleton ==
    (/\ ret.op = "generate_mesh"
     /\ ret.branch \in BrickBranches
     /\ ret.resolution % BRICK_SIZE = 0
     /\ IsNone(skeleton)
     /\ last_moulds # << >>
     /\ Parentless(last_moulds))
    => /\ ret.outcome = "Ok"
       /\ mutex = "free"

\* Two bricks per axis: a resolution both grids accept, with an integer cell
\* size in each.
EquivResolution == 2 * BRICK_SIZE

\* C11: for the same skeleton and moulds and the same resolution, the brick map
\* and the dense grid yield the same set of surface cells.
C11_BrickDenseSameCells ==
    (IsSome(mould_manager) /\ Unwrap(mould_manager).cache_valid) =>
        LET mm == Unwrap(mould_manager)
            dense == VoxelGrid(EquivResolution, mm)
            brick == allocate_surface_bricks(BrickMap_new(EquivResolution), mm,
                                             surface_thickness)
        IN surface_cells_dense(dense) = surface_cells_brick(brick)


\* The mould manager with its HashMap iterated in another order.
reordered(mm, order) == [mm EXCEPT !.iter_order = order]

\* The mesh a brick-path rebuild extracts for a mould manager whose cache is
\* built.
rebuilt_mesh(mm, resolution, fast_mode) ==
    MeshData(surface_cells_brick(allocate_surface_bricks(BrickMap_new(resolution), mm,
                                                         surface_thickness)),
             fast_mode)

\* C13: the mesh a generate_mesh stored after rebuilding the brick map is the
\* mesh of the same call (same joints, moulds, resolution and mode) for every
\* order in which the mould collection may be iterated.
C13_MeshIndependentOfIterationOrder ==
    (/\ ret.op = "generate_mesh"
     /\ ret.outcome = "Ok"
     /\ ret.branch = "rebuild")
    => \A order \in IterOrders(DOMAIN Unwrap(mould_manager).moulds) :
          rebuilt_mesh(reordered(Unwrap(mould_manager), order), ret.resolution, ret.fast_mode)
              = Unwrap(last_mesh)

\* Sample points of the composition: every second lattice point of the bounds.
SamplePoints == { BoundsMin + 2 * k : k \in 0..((BoundsMax - BoundsMin) \div 2) }

\* C14: at every sample point the fold of the smooth-min over the moulds gives
\* the same value (up to one lattice unit of rounding) for every order of the
\* moulds.
C14_CompositionOrderInvariant ==
    (IsSome(mould_manager) /\ Unwrap(mould_manager).cache_valid) =>
        LET mm == Unwrap(mould_manager)
        IN \A order \in IterOrders(DOMAIN mm.moulds) : \A point \in SamplePoints :
              Abs(evaluate_sdf(reordered(mm, order), point) - evaluate_sdf(mm, point)) <= 1


\* C16: a brick-path generate_mesh at a resolution that is not a multiple of
\* the brick size, made with a mould manager whose moulds all resolve, leaves
\* the mould manager, the cached brick map and the pending dirty region in the
\* state and the mutex free for later calls.
C16_InvalidResolutionKeepsState ==
    [][(/\ calls' = calls + 1
        /\ mutex = "free"
        /\ ret'.op = "generate_mesh"
        /\ ret'.resolution >= BRICK_MAP_THRESHOLD
        /\ ret'.resolution % BRICK_SIZE # 0
        /\ IsSome(mould_manager)
        /\ ~rebuild_cache_panics(Unwrap(mould_manager))
        /\ ~evaluate_sdf_panics(rebuild_cache(Unwrap(mould_manager))))
       => /\ mutex' = "free"
          /\ IsSome(mould_manager')
          /\ brick_map' = brick_map
          /\ dirty_bounds' = dirty_bounds]_vars

\* C17: the operation that resolves a mould whose parent_joint_id names no
\* joint of the current skeleton (update_moulds computing the mould's dirty
\* bounds, the only way it fails on a free mutex, or generate_mesh rebuilding
\* the transform cache) returns an error result and leaves the mutex free.
C17_DanglingParentIsAnError ==
    [][(/\ calls' = calls + 1
        /\ mutex = "free"
        /\ \/ ret'.op = "update_moulds" /\ ret'.outcome # "Ok"
           \/ /\ ret'.op = "generate_mesh"
              /\ IsSome(mould_manager)
              /\ rebuild_cache_panics(Unwrap(mould_manager)))
       => /\ ret'.outcome = "Err"
          /\ mutex' = "free"]_vars

\* C18: when generate_mesh has returned successfully, the set of moved joint
\* ids recorded by the last update_skeleton is empty.
C18_GenerateClearsMovedJoints ==
    (ret.op = "generate_mesh" /\ ret.outcome = "Ok") => moved_joint_ids = {}

\* The world position of a mould's local point under an optional skeleton.
world_point(mould, skel, local_point) ==
    IF IsSome(mould.parent_joint_id)
    THEN transform_point_to_world(Unwrap(skel), Unwrap(mould.parent_joint_id), local_point)
    ELSE local_point

\* A mould's parent joint, when it has one, is a joint of the skeleton.
Resolves(mould, skel) ==
    IsSome(mould.parent_joint_id)
        => IsSome(skel) /\ JointFound(Unwrap(skel), Unwrap(mould.parent_joint_id))

\* C20: called with a mould manager whose moulds resolve, also after
\* update_moulds or update_skeleton and before the next generate_mesh,
\* get_profile_control_points returns, for every ProfiledCapsule mould and
\* each of its ring segments, one point per sample (64 with splines, else one
\* per control point), on the ring's center under the current skeleton.
C20_ControlPointsOfCurrentState ==
    [][(/\ calls' = calls + 1
        /\ mutex = "free"
        /\ ret'.op = "get_profile_control_points"
        /\ IsSome(mould_manager)
        /\ \A id \in DOMAIN Unwrap(mould_manager).moulds :
              Resolves(Unwrap(mould_manager).moulds[id], skeleton))
       => /\ ret'.outcome = "Ok"
          /\ \A id \in DOMAIN Unwrap(mould_manager).moulds :
                LET mould == Unwrap(mould_manager).moulds[id]
                    profiles == Unwrap(mould.radial_profiles)
                IN mould.shape = "ProfiledCapsule" =>
                      \A seg \in DOMAIN profiles :
                         LET points == { p \in control_points' :
                                            /\ p.mould_id = id
                                            /\ p.segment_index = seg - 1 }
                         IN /\ Cardinality(points)
                                  = IF mould.use_splines THEN 64 ELSE Len(profiles[seg])
                            /\ \A p \in points :
                                  p.center = ring_center(
                                      world_point(mould, skeleton, mould.center),
                                      world_point(mould, skeleton, Unwrap(mould.end_point)),
                                      seg - 1, Len(profiles))]_vars

\* Joint d is a or a descendant of a, and a is the nearest such ancestor
\* reached through parents present in the skeleton.
RECURSIVE DescendsFrom(_, _, _)
DescendsFrom(skel, d, a) ==
    \/ d = a
    \/ /\ d \in DOMAIN skel.joints
       /\ IsSome(skel.joints[d].parent_id)
       /\ Unwrap(skel.joints[d].parent_id) \in DOMAIN skel.joints
       /\ DescendsFrom(skel, Unwrap(skel.joints[d].parent_id), a)

\* The local offset of joint id differs between the two skeletons.
LocalChanged(prev, next, id) ==
    Abs(next.joints[id].local_offset - prev.joints[id].local_offset) * 10000 > WorldUnit

\* The joints on the path from d up to, not including, a keep their local
\* offset and their parent.
RECURSIVE PathUnchanged(_, _, _, _)
PathUnchanged(prev, next, d, a) ==
    \/ d = a
    \/ /\ d \in DOMAIN prev.joints
       /\ prev.joints[d] = next.joints[d]
       /\ PathUnchanged(prev, next, Unwrap(next.joints[d].parent_id), a)

\* An update_skeleton call that returned, with a previous skeleton to compare.
SkeletonCompared ==
    /\ calls' = calls + 1
    /\ mutex = "free"
    /\ ret'.op = "update_skeleton"
    /\ ret'.outcome = "Ok"
    /\ IsSome(last_skeleton)

C25_DirtyCoversDeleted ==
    [][(/\ calls' = calls + 1
        /\ mutex = "free"
        /\ ret'.op = "update_moulds"
        /\ ret'.outcome = "Ok")
       => \A i \in DOMAIN last_moulds :
             (/\ last_moulds[i].id \notin mould_ids(last_moulds')
              /\ IsNone(last_moulds[i].parent_joint_id))
             => Contains(dirty_bounds',
                         mould_world_bounds(last_moulds[i], SkeletonOf(<< >>)))]_vars

C29_UnallocatedIsOutside ==
    (/\ ret.op = "generate_mesh"
     /\ ret.branch = "rebuild"
     /\ ret.outcome = "Ok")
    => LET map == Unwrap(brick_map)
           mm == Unwrap(mould_manager)
       IN \A x \in 0..(map.resolution - 1) :
             BrickMap_get(map, x) = INFINITY
                => evaluate_sdf(mm, voxel_center(map, x)) >= iso_value

\* C30: when update_moulds replaces a mould by one that differs in its
\* radial_profiles or in use_splines, the mould's bounds enter the pending
\* dirty region (stated with a skeleton present, for moulds without a parent
\* joint).
C30_ProfileChangeIsDirty ==
    [][(/\ calls' = calls + 1
        /\ mutex = "free"
        /\ ret'.op = "update_moulds"
        /\ ret'.outcome = "Ok"
        /\ IsSome(skeleton))
       => \A i \in DOMAIN last_moulds' :
             LET new == last_moulds'[i]
                 old == prev_mould(last_moulds, new.id)
             IN (/\ IsSome(old)
                 /\ IsNone(new.parent_joint_id)
                 /\ \/ Unwrap(old).radial_profiles # new.radial_profiles
                    \/ Unwrap(old).use_splines # new.use_splines)
                => Contains(dirty_bounds', mould_world_bounds(new, SkeletonOf(<< >>)))]_vars

\* C26: after any sequence of add_joint, move_joint, set_joint_local_rotation
\* and edits made through get_joint_mut, the cached world transform of every
\* joint equals its uncached world transform.
C26_CacheCoherent ==
    \A joint_id \in DOMAIN sk.joints :
        JointFound(sk, joint_id) =>
            get_world_transform(sk, joint_id) = get_world_transform_immutable(sk, joint_id)

\* C27: host calls from concurrent threads exclude each other on the pipeline
\* state: while a brick-path generate_mesh has the mould manager, brick map
\* and dirty region taken out of the state it holds the mutex, the only step
\* that then acts on the state is its own store of the mould manager, the
\* brick map and the last mesh, and whenever another caller can lock the state
\* a mould manager that was set is present.
C27_GenerateExcludesOthers ==
    /\ [](IsSome(gen) => mutex = "held")
    /\ [](mutex = "free" /\ last_moulds # << >> => IsSome(mould_manager))
    /\ [][calls' # calls => IsNone(gen)]_vars
    /\ [][IsSome(gen) =>
            /\ IsNone(gen')
            /\ ret'.op = "generate_mesh"
            /\ ret'.resolution = Unwrap(gen).resolution
            /\ << skeleton, last_skeleton, prev_skeleton, last_moulds, moved_joint_ids,
                  dirty_bounds, control_points >>'
                 = << skeleton, last_skeleton, prev_skeleton, last_moulds, moved_joint_ids,
                      dirty_bounds, control_points >>]_vars
    /\ [][IsSome(gen) /\ ret'.outcome = "Ok" =>
            /\ mutex' = "free"
            /\ mould_manager' = Some(rebuild_cache(Unwrap(gen).mould_manager))
            /\ IsSome(brick_map')
            /\ brick_map_resolution' = Some(Unwrap(gen).resolution)
            /\ IsSome(last_mesh')]_vars

\* A brick-path generate_mesh is in flight with a brick map and a dirty region
\* taken out of the state.
C27_Witness ==
    /\ IsSome(gen)
    /\ IsSome(Unwrap(gen).brick_map)
    /\ IsSome(Unwrap(gen).dirty_bounds)
    /\ IsNone(mould_manager)
    /\ last_moulds # << >>

(***************************************************************************)
(* Properties of the extractor.                                            *)
(***************************************************************************)
\* The position of the vertex an index refers to.
vertex_position(mesh, index) ==
    << mesh.vertices[3 * index + 1], mesh.vertices[3 * index + 2], mesh.vertices[3 * index + 3] >>

\* The normal of the triangle whose first index is the k-th of a quad.
triangle_normal(mesh, tris, k) ==
    LET a == vertex_position(mesh, tris[k])
        b == vertex_position(mesh, tris[k + 1])
        c == vertex_position(mesh, tris[k + 2])
    IN Cross(Sub3(b, a), Sub3(c, a))

\* The cells whose vertices a quad connects.
quad_cells(mesh, quad) == { mesh.surface[quad.tris[k] + 1].cell : k \in 1..6 }

\* The four cells that share the grid edge leaving p along the axis.
cells_around(axis, p) ==
    { << p[1] - (IF axis = 1 THEN 0 ELSE a),
         p[2] - (IF axis = 2 THEN 0 ELSE IF axis = 1 THEN a ELSE b),
         p[3] - (IF axis = 3 THEN 0 ELSE b) >> : a \in {0, 1}, b \in {0, 1} }

\* A grid edge with cells on all four sides.
interior_edge(res, axis, p) ==
    /\ p[axis] < res - 1
    /\ \A k \in 1..3 : k # axis => (1 <= p[k] /\ p[k] <= res - 2)

\* C8: every index is below vertices.len() / 3, indices.len() is a multiple of
\* three and normals.len() equals vertices.len(), in fast and in quality mode.
C8_IndexValidity ==
    IsSome(dc_mesh) =>
        LET mesh == Unwrap(dc_mesh)
        IN /\ \A k \in DOMAIN mesh.indices :
                 0 <= mesh.indices[k] /\ mesh.indices[k] < Len(mesh.vertices) \div 3
           /\ Len(mesh.indices) % 3 = 0
           /\ mesh.normals_len = Len(mesh.vertices)

\* C8 witness: a quality-mode mesh of several quads that references its last
\* vertex.
C8_Witness ==
    /\ IsSome(dc_mesh)
    /\ ~Unwrap(dc_mesh).fast_mode
    /\ Len(Unwrap(dc_mesh).indices) >= 12
    /\ \E k \in DOMAIN Unwrap(dc_mesh).indices :
          Unwrap(dc_mesh).indices[k] = (Len(Unwrap(dc_mesh).vertices) \div 3) - 1

\* C9: every sign-changing grid edge that is not on the border is closed by
\* exactly one quad, built from the four cells around it.
C9_InteriorEdgesClosed ==
    IsSome(dc_mesh) =>
        LET mesh == Unwrap(dc_mesh)
        IN \A axis \in 1..3 : \A p \in GridPoints(dc_grid.resolution) :
              (/\ interior_edge(dc_grid.resolution, axis, p)
               /\ sign_change(dc_grid, axis, p[1], p[2], p[3]))
              => Cardinality({ k \in DOMAIN mesh.quads :
                                 quad_cells(mesh, mesh.quads[k]) = cells_around(axis, p) }) = 1

\* C10: in fast mode both triangles of a quad emitted for the edge from
\* (x, y, z) along axis A have a normal with positive A component when
\* (x, y, z) is inside and its +A neighbour outside, and negative A component
\* in the opposite case.
C10_TrianglesFaceOutward ==
    (IsSome(dc_mesh) /\ Unwrap(dc_mesh).fast_mode) =>
        LET mesh == Unwrap(dc_mesh)
        IN \A k \in DOMAIN mesh.quads :
              LET quad == mesh.quads[k]
                  c == quad.cell
                  inside == Grid_get(dc_grid, c[1], c[2], c[3]) < iso_value
              IN \A t \in {1, 4} :
                    IF inside
                    THEN triangle_normal(mesh, quad.tris, t)[quad.axis] > 0
                    ELSE triangle_normal(mesh, quad.tris, t)[quad.axis] < 0

\* The cells that own a vertex.
mesh_cells(mesh) == { mesh.surface[i].cell : i \in DOMAIN mesh.surface }

\* The four cells of every quad, in emission order.
mesh_quads(mesh) == [k \in DOMAIN mesh.quads |-> quad_cells(mesh, mesh.quads[k])]

\* The fast-mode extraction of a grid (the placement is not used).
fast_extraction(grid) ==
    dual_contouring(grid, TRUE, << qef_at(<< 1, 1, 1 >>), qef_at(<< 1, 1, 1 >>) >>)

\* C12: for the same grid, an extraction in either mode has the surface cells,
\* the quads (same four cells each) and the triangle count of the fast-mode
\* extraction.
C12_FastQualitySameTopology ==
    IsSome(dc_mesh) =>
        LET mesh == Unwrap(dc_mesh)
            fast == fast_extraction(dc_grid)
        IN /\ mesh_cells(mesh) = mesh_cells(fast)
           /\ mesh_quads(mesh) = mesh_quads(fast)
           /\ Len(mesh.indices) = Len(fast.indices)

\* C12 witness: a quality-mode mesh of several quads whose vertices and
\* triangles differ from the fast-mode ones.
C12_Witness ==
    /\ IsSome(dc_mesh)
    /\ ~Unwrap(dc_mesh).fast_mode
    /\ Len(Unwrap(dc_mesh).quads) >= 2
    /\ Unwrap(dc_mesh).vertices # fast_extraction(dc_grid).vertices
    /\ Unwrap(dc_mesh).indices # fast_extraction(dc_grid).indices

\* C15: in quality mode the vertex of every surface cell lies within the
\* axis-aligned box of that cell.
C15_VertexInCell ==
    (IsSome(dc_mesh) /\ ~Unwrap(dc_mesh).fast_mode) =>
        \A i \in DOMAIN Unwrap(dc_mesh).surface :
            LET cell == Unwrap(dc_mesh).surface[i].cell
                pos == Unwrap(dc_mesh).surface[i].position
            IN \A k \in 1..3 : 2 * cell[k] <= pos[k] /\ pos[k] <= 2 * cell[k] + 2

(***************************************************************************)
(* Properties of the serializer.                                           *)
(***************************************************************************)
\* u32::from_le_bytes of the four bytes starting at position at.
u32_from_le_bytes(bytes, at) ==
    bytes[at] + 256 * bytes[at + 1] + 65536 * bytes[at + 2] + 16777216 * bytes[at + 3]

\* The elements a section holds, read in the byte order of the target.
section_elements(bytes, first, len, endian) ==
    [k \in 1..(len \div 4) |->
        LET at == first + 4 * (k - 1)
        IN IF endian = "little"
           THEN u32_from_le_bytes(bytes, at)
           ELSE bytes[at + 3] + 256 * bytes[at + 2] + 65536 * bytes[at + 1]
                    + 16777216 * bytes[at]]

C22_VertexCountIsMaxIndexPlusOne ==
    (IsSome(dc_mesh) /\ Len(Unwrap(dc_mesh).vertices) >= 3) =>
        LET mesh == Unwrap(dc_mesh)
        IN /\ mesh.indices # << >>
           /\ \A k \in DOMAIN mesh.indices : mesh.indices[k] + 1 <= Len(mesh.vertices) \div 3
           /\ \E k \in DOMAIN mesh.indices : mesh.indices[k] + 1 = Len(mesh.vertices) \div 3

\* 1e-6, the tolerance of the samplers' unit tests, in units of 2^-30.
Tolerance == 1073

\* Non-decreasing control values.
Increasing(values) == \A i \in 1..(Len(values) - 1) : values[i] <= values[i + 1]

\* The middle step of four values outweighs the difference of the outer steps
\* by more than the rounding tolerance.
MiddleStepDominates(values) ==
    8 * (values[3] - values[2])
        - Abs((values[4] - values[3]) - (values[2] - values[1])) > 16 * Tolerance

SnapReturned ==
    /\ ~snap.listener
    /\ IsSome(snap.returned)
    /\ LET r == Unwrap(snap.returned)
       IN \/ r.ok /\ snap.handled # << >> /\ r.value = snap.handled[1]
          \/ ~r.ok /\ r.error = "timeout waiting for snapshot"
          \/ ~r.ok /\ r.error \in {"no main window to emit to", "emit failed"}

\* C21: a snapshot request completes exactly once: it returns the payload
\* (path or null) of the first snapshot-done event handled after the listener
\* was registered, or the timeout error when no event was handled when the
\* timeout elapsed, or an error when the request cannot be emitted; events
\* after the first are ignored, and on every outcome the listener is
\* unregistered before the call returns.
C21_SnapshotCompletesOnce ==
    /\ <>(snap.pc = "done")
    /\ [](snap.pc = "done" <=> IsSome(snap.returned))
    /\ [](snap.pc = "done" => SnapReturned)
    /\ [][snap.pc = "done" =>
            snap'.pc = "done" /\ snap'.returned = snap.returned /\ ~snap'.listener]_vars
    /\ [][snap.pc = "wait" /\ snap'.pc = "cleanup" /\ ~Unwrap(snap'.res).ok =>
            snap.handled = << >>]_vars
    /\ [][snap.pc = "wait" /\ snap.handled # << >> /\ snap'.pc = "cleanup" =>
            snap'.res = Some(SnapOk(snap.handled[1]))]_vars

\* The call returned the payload of the first of two different events handled.
C21_Witness ==
    /\ snap.pc = "done"
    /\ Len(snap.handled) >= 2
    /\ snap.handled[1] # snap.handled[2]
    /\ snap.returned = Some(SnapOk(snap.handled[1]))

====
